---- MODULE Spec2Model ----
(***************************************************************************)
(* Briefcase backend: documents, explicit document permissions, access     *)
(* logs, and the request handlers that read and write them.                *)
(***************************************************************************)
EXTENDS Integers, Sequences, FiniteSets, TLC

(***************************************************************************)
(* Bounds                                                                  *)
(***************************************************************************)
MaxTime == 2
MaxViewLimit == 1
MaxLogs == 3
MaxViewDocLimit == 2
MaxViewLogs == 5
MaxConcLogs == 4
MaxPermTime == 1
MaxPerms == 1
MaxRouteLogs == 3
MaxSharePerms == 2
MaxOwnerLogs == 3
MaxExpireLogs == 3
MaxJobs == 2
MaxCleanupLogs == 4
MaxPurgeLogs == 4
MaxAuditLogs == 3
MaxJobsLogs == 3
MaxRaceLogs == 3
MaxListLogs == 3

MaxRoleTime == 1

MaxRotatedLogs == 4

MaxFailLogs == 3

(***************************************************************************)
(* Value universes                                                         *)
(***************************************************************************)
\* a nullable column holding NULL
None == -1

Users == {"u1", "u2", "u3"}
DocIds == {"d1"}
Sessions == {"s1", "s2"}
Times == 0..MaxTime

PermissionType == {"read", "write", "share", "delete", "admin"}

ENCRYPTION_KEY == "master"

\* what the process may find in its ENCRYPTION_KEY setting: a key, or nothing
MasterKeys == {ENCRYPTION_KEY, ""}

\* a nullable text column holding NULL, or a text field left out of a request
NullText == "null"
Contents == {"c1"}
IVs == {"iv1"}

VARIABLES now, documents, permissions, access_logs, resp, sessions,
          lifecycle_events, cleanup_jobs, lifecycle_config, role_assignments

vars == <<now, documents, permissions, access_logs, resp, sessions,
         lifecycle_events, cleanup_jobs, lifecycle_config, role_assignments>>

(***************************************************************************)
(* Encryption engine                                                       *)
(***************************************************************************)
b64encode(bytes) == <<"b64", bytes>>

b64decode(text) == text[2]

derive_key_from_master(document_id, master_key) ==
    IF master_key = ""
    THEN [ok |-> FALSE, key |-> <<>>]
    ELSE [ok |-> TRUE, key |-> <<"pbkdf2", master_key, document_id>>]

encrypt_content(content, document_id, iv, master_key) ==
    LET k == derive_key_from_master(document_id, master_key)
    IN  IF ~k.ok
        THEN [ok |-> FALSE, encrypted_content |-> <<>>, iv |-> <<>>]
        ELSE [ok |-> TRUE,
              encrypted_content |-> b64encode(<<"aes_cbc", k.key, iv, content>>),
              iv |-> b64encode(iv)]

\* what CBC decryption under another key or IV yields: bytes that are a
\* function of the ciphertext, the key and the IV, and not the content
Garbled(ct, key, iv) == <<"garbled", ct, key, iv>>

\* unpads says whether the bytes that come out under a key or IV other than
\* the encrypting ones happen to end in well-formed PKCS7 padding; bytes that
\* come out under the encrypting key and IV always do
decrypt_content(encrypted_content, iv, document_id, master_key, unpads) ==
    LET k == derive_key_from_master(document_id, master_key)
    IN  IF ~k.ok \/ encrypted_content = <<>> \/ iv = <<>>
        THEN [ok |-> FALSE, content |-> ""]
        ELSE LET ct == b64decode(encrypted_content)
             IN  IF ct[2] = k.key /\ ct[3] = b64decode(iv)
                 THEN [ok |-> TRUE, content |-> ct[4]]
                 ELSE IF unpads
                 THEN [ok |-> TRUE, content |-> Garbled(ct, k.key, b64decode(iv))]
                 ELSE [ok |-> FALSE, content |-> ""]

encrypt_base64_content(base64_content, document_id, iv, master_key) ==
    encrypt_content(b64decode(base64_content), document_id, iv, master_key)

\* the decrypted bytes handed back without the base64 encoding
decrypt_to_base64_content_raw(encrypted_content, iv, document_id, master_key, unpads) ==
    LET r == decrypt_content(encrypted_content, iv, document_id, master_key, unpads)
    IN  IF r.ok THEN [ok |-> TRUE, content |-> r.content]
        ELSE [ok |-> FALSE, content |-> <<>>]

decrypt_to_base64_content(encrypted_content, iv, document_id, master_key, unpads) ==
    LET r == decrypt_content(encrypted_content, iv, document_id, master_key, unpads)
    IN  IF r.ok THEN [ok |-> TRUE, content |-> b64encode(r.content)]
        ELSE [ok |-> FALSE, content |-> <<>>]

(***************************************************************************)
(* Document model                                                          *)
(***************************************************************************)
\* the expiry test placed ahead of the deletion test
calculate_status_expiry_first(doc, t) ==
    IF doc.expires_at # None /\ t > doc.expires_at THEN "expired"
    ELSE IF doc.status = "deleted" \/ doc.deleted_at # None THEN "deleted"
    ELSE IF doc.view_limit # None /\ doc.access_count >= doc.view_limit
         THEN "view_exhausted"
    ELSE "active"

calculate_status(doc, t) ==
    IF doc.status = "deleted" \/ doc.deleted_at # None THEN "deleted"
    ELSE IF doc.expires_at # None /\ t > doc.expires_at THEN "expired"
    ELSE IF doc.view_limit # None /\ doc.access_count >= doc.view_limit
         THEN "view_exhausted"
    ELSE "active"

update_status(doc, t) == [doc EXCEPT !.status = calculate_status(doc, t)]

\* the sender let through whatever the status
is_accessible_by_owner_bypass(doc, user_id, t) ==
    IF user_id \notin {doc.sender_id, doc.recipient_id}
    THEN [ok |-> FALSE, doc |-> doc]
    ELSE [ok |-> user_id = doc.sender_id \/ calculate_status(doc, t) = "active",
          doc |-> update_status(doc, t)]

is_accessible_by(doc, user_id, t) ==
    IF user_id \notin {doc.sender_id, doc.recipient_id}
    THEN [ok |-> FALSE, doc |-> doc]
    ELSE [ok |-> calculate_status(doc, t) = "active", doc |-> update_status(doc, t)]

\* the counter bumped without the status refresh
increment_access_count_stale(doc, t) ==
    [doc EXCEPT !.access_count = doc.access_count + 1]

increment_access_count(doc, t) ==
    update_status([doc EXCEPT !.access_count = doc.access_count + 1], t)

\* the status flipped without the deletion timestamp
soft_delete_status_only(doc, t) == [doc EXCEPT !.status = "deleted"]

soft_delete(doc, t) == [doc EXCEPT !.deleted_at = t, !.status = "deleted"]

\* a session commit: the row is rewritten only when an attribute changed,
\* and updated_at follows every rewrite
flush(old, new, t) == IF new = old THEN old ELSE [new EXCEPT !.updated_at = t]

NewDocument(id, sender, recipient, title, description, expires_at, view_limit, t) ==
    [id |-> id, title |-> title, description |-> description,
     sender_id |-> sender, recipient_id |-> recipient,
     file_name |-> "f1", file_size |-> 1,
     encrypted_content |-> <<>>, encryption_iv |-> <<>>,
     expires_at |-> expires_at, view_limit |-> view_limit, access_count |-> 0,
     status |-> "active", created_at |-> t, updated_at |-> t, deleted_at |-> None]

(***************************************************************************)
(* Access log                                                              *)
(***************************************************************************)
log_access(logs, document_id, user_id, action, success, t) ==
    Append(logs, [document_id |-> document_id, user_id |-> user_id,
                  action |-> action, success |-> success, accessed_at |-> t])

\* _log_access: the row is added and committed; a commit that fails is rolled
\* back and the failure swallowed
try_log_access(logs, document_id, user_id, action, success, t, log_fails) ==
    IF log_fails THEN logs ELSE log_access(logs, document_id, user_id, action, success, t)

Response(op, code, content) == [op |-> op, code |-> code, content |-> content]

NoContent == <<>>

(***************************************************************************)
(* Permission evaluator                                                    *)
(***************************************************************************)
\* a grant that never lapses
ActiveGrant_no_expiry(p, t) == TRUE

ActiveGrant(p, t) == p.expires_at = None \/ p.expires_at > t

\* any live grant on the document taken for the requested one
check_document_permission_any_type(docs, perms, user_id, document_id, permission, t) ==
    \/ document_id \in DOMAIN docs /\ docs[document_id].sender_id = user_id
    \/ /\ document_id \in DOMAIN docs
       /\ docs[document_id].recipient_id = user_id
       /\ permission = "read"
    \/ \E p \in perms :
          /\ p.document_id = document_id
          /\ p.user_id = user_id
          /\ ActiveGrant(p, t)

check_document_permission(docs, perms, user_id, document_id, permission, t) ==
    \/ document_id \in DOMAIN docs /\ docs[document_id].sender_id = user_id
    \/ /\ document_id \in DOMAIN docs
       /\ docs[document_id].recipient_id = user_id
       /\ permission = "read"
    \/ \E p \in perms :
          /\ p.document_id = document_id
          /\ p.user_id = user_id
          /\ p.permission_type = permission
          /\ ActiveGrant(p, t)

SameTriple(p, document_id, user_id, permission_type) ==
    /\ p.document_id = document_id
    /\ p.user_id = user_id
    /\ p.permission_type = permission_type

\* a new row on every grant
grant_document_permission_insert(perms, document_id, user_id, permission_type, granted_by, expires_at, t) ==
    perms \cup {[document_id |-> document_id, user_id |-> user_id,
                 permission_type |-> permission_type, granted_by |-> granted_by,
                 granted_at |-> t, expires_at |-> expires_at]}

grant_document_permission(perms, document_id, user_id, permission_type, granted_by, expires_at, t) ==
    LET existing == {p \in perms : SameTriple(p, document_id, user_id, permission_type)}
        row == [document_id |-> document_id, user_id |-> user_id,
                permission_type |-> permission_type, granted_by |-> granted_by,
                granted_at |-> t, expires_at |-> expires_at]
    IN  IF existing # {}
        THEN LET e == CHOOSE p \in existing : TRUE
             IN  (perms \ {e}) \cup {row}
        ELSE perms \cup {row}

\* success reported with the row left in place
revoke_document_permission_keep(perms, document_id, user_id, permission_type) ==
    LET existing == {p \in perms : SameTriple(p, document_id, user_id, permission_type)}
    IN  [found |-> existing # {}, perms |-> perms]

revoke_document_permission(perms, document_id, user_id, permission_type) ==
    LET existing == {p \in perms : SameTriple(p, document_id, user_id, permission_type)}
    IN  IF existing # {}
        THEN [found |-> TRUE, perms |-> perms \ {CHOOSE p \in existing : TRUE}]
        ELSE [found |-> FALSE, perms |-> perms]

(***************************************************************************)
(* Initial state                                                           *)
(***************************************************************************)
NoDocuments == [d \in {} |-> d]

(***************************************************************************)
(* Lifecycle configuration service                                         *)
(***************************************************************************)
\* the texts int() accepts, as far as the settings use them
int(text) ==
    CASE text = "0" -> [ok |-> TRUE, value |-> 0]
      [] text = "1" -> [ok |-> TRUE, value |-> 1]
      [] text = "2" -> [ok |-> TRUE, value |-> 2]
      [] text = "30" -> [ok |-> TRUE, value |-> 30]
      [] text = "100" -> [ok |-> TRUE, value |-> 100]
      [] text = "2555" -> [ok |-> TRUE, value |-> 2555]
      [] OTHER -> [ok |-> FALSE, value |-> 0]

str(n) ==
    CASE n = 0 -> "0"
      [] n = 1 -> "1"
      [] n = 2 -> "2"
      [] n = 30 -> "30"
      [] n = 100 -> "100"
      [] n = 2555 -> "2555"

\* the table maps each setting_name that has a row to its setting_value
get_config_value(config, setting_name, default) ==
    IF setting_name \in DOMAIN config THEN config[setting_name] ELSE default

get_config_int(config, setting_name, default) ==
    LET value == int(get_config_value(config, setting_name, str(default)))
    IN  IF value.ok THEN value.value ELSE default

set_config_value(config, setting_name, value) ==
    [n \in DOMAIN config \cup {setting_name} |->
        IF n = setting_name THEN value ELSE config[n]]

defaults ==
    <<<<"cleanup_grace_period_days", "30">>,
      <<"notification_days_before_expiry", "7,1">>,
      <<"audit_log_retention_days", "2555">>,
      <<"cleanup_batch_size", "100">>,
      <<"enable_expiration_notifications", "true">>>>

\* get_config_value without a default answers None for a missing row; the
\* test 'not existing_config' holds for None and for the empty text
RECURSIVE InitializeFrom(_, _)
InitializeFrom(config, i) ==
    IF i > Len(defaults) THEN config
    ELSE LET name == defaults[i][1]
             existing_config == get_config_value(config, name, NullText)
         IN  InitializeFrom(IF existing_config = NullText \/ existing_config = ""
                            THEN set_config_value(config, name, defaults[i][2])
                            ELSE config,
                            i + 1)

NoConfig == [n \in {} |-> n]

\* the table as process start leaves it on a fresh database
DefaultConfig == InitializeFrom(NoConfig, 1)

NoResponse == Response("none", 0, NoContent)

IdleSession == [pc |-> "idle", user |-> "", doc |-> "", loaded |-> <<>>, cur |-> <<>>]

Init ==
    /\ now = 0
    /\ documents = NoDocuments
    /\ permissions = {}
    /\ access_logs = <<>>
    /\ resp = NoResponse
    /\ sessions = [s \in Sessions |-> IdleSession]
    /\ lifecycle_events = <<>>
    /\ cleanup_jobs = <<>>
    /\ role_assignments = {}
    /\ lifecycle_config = DefaultConfig

Tick ==
    /\ now < MaxTime
    /\ now' = now + 1
    /\ UNCHANGED <<role_assignments, documents, permissions, access_logs, resp, sessions, lifecycle_events, cleanup_jobs,
                 lifecycle_config>>

(***************************************************************************)
(* Document service                                                        *)
(***************************************************************************)
Exists(d) == d \in DOMAIN documents

PutDocument(d, doc) ==
    [x \in DOMAIN documents \cup {d} |-> IF x = d THEN doc ELSE documents[x]]

\* the access log of a request on a document id that has no row: the log row
\* carries a foreign key to documents, so the store either keeps it or rejects
\* it, and a rejected log write is swallowed
LogOrphan(d, u) ==
    access_logs' \in {access_logs,
                      log_access(access_logs, d, u, "access_denied", FALSE, now)}

\* the placeholder row committed as it was flushed
Uploaded_placeholder(document, enc) == document

\* the row create_document commits: the placeholder row with the ciphertext
\* and IV filled in
Uploaded(document, enc) ==
    [document EXCEPT !.encrypted_content = enc.encrypted_content,
                     !.encryption_iv = enc.iv]

create_document(sender, recipient_id, title, description, content, expires_at, view_limit, iv, master_key) ==
    /\ IF recipient_id \notin Users
       THEN /\ resp' = Response("create", 404, NoContent)
            /\ UNCHANGED <<role_assignments, documents, access_logs>>
       ELSE \E d \in DocIds \ DOMAIN documents :
              LET document == NewDocument(d, sender, recipient_id, title, description,
                                          expires_at, view_limit, now)
                  enc == encrypt_base64_content(content, d, iv, master_key)
              IN  IF enc.ok
                  THEN /\ documents' = PutDocument(d, Uploaded(document, enc))
                       /\ access_logs' = log_access(access_logs, d, sender, "upload", TRUE, now)
                       /\ resp' = Response("create", 200, NoContent)
                  ELSE /\ resp' = Response("create", 500, NoContent)
                       /\ UNCHANGED <<role_assignments, documents, access_logs>>
    /\ UNCHANGED <<role_assignments, now, permissions, sessions, lifecycle_events, cleanup_jobs,
                 lifecycle_config>>

get_document(u, d) ==
    /\ IF ~Exists(d)
       THEN /\ LogOrphan(d, u)
            /\ resp' = Response("get", 404, NoContent)
            /\ UNCHANGED documents
       ELSE LET a == is_accessible_by(documents[d], u, now)
            IN  /\ documents' = PutDocument(d, flush(documents[d], a.doc, now))
                /\ IF ~a.ok
                   THEN /\ access_logs' = log_access(access_logs, d, u, "access_denied", FALSE, now)
                        /\ resp' = Response("get", 403, NoContent)
                   ELSE /\ access_logs' = log_access(access_logs, d, u, "view", TRUE, now)
                        /\ resp' = Response("get", 200, NoContent)
    /\ UNCHANGED <<role_assignments, now, permissions, sessions, lifecycle_events, cleanup_jobs,
                 lifecycle_config>>

download_document_logging(u, d, log_fails) ==
    /\ IF ~Exists(d)
       THEN /\ IF log_fails THEN UNCHANGED access_logs ELSE LogOrphan(d, u)
            /\ resp' = Response("download", 404, NoContent)
            /\ UNCHANGED documents
       ELSE \E unpads \in BOOLEAN :
            LET a == is_accessible_by(documents[d], u, now)
                dec == decrypt_to_base64_content(a.doc.encrypted_content,
                                                 a.doc.encryption_iv, a.doc.id,
                                                 ENCRYPTION_KEY, unpads)
            IN  IF ~a.ok
                THEN /\ documents' = IF log_fails THEN documents
                                     ELSE PutDocument(d, flush(documents[d], a.doc, now))
                     /\ access_logs' = try_log_access(access_logs, d, u, "access_denied", FALSE, now, log_fails)
                     /\ resp' = Response("download", 403, NoContent)
                ELSE IF dec.ok
                THEN /\ documents' = PutDocument(d,
                            flush(documents[d], increment_access_count(a.doc, now), now))
                     /\ access_logs' = try_log_access(access_logs, d, u, "download", TRUE, now, log_fails)
                     /\ resp' = Response("download", 200, dec.content)
                ELSE /\ documents' = IF log_fails THEN documents
                                     ELSE PutDocument(d, flush(documents[d], a.doc, now))
                     /\ access_logs' = try_log_access(access_logs, d, u, "access_denied", FALSE, now, log_fails)
                     /\ resp' = Response("download", 500, NoContent)
    /\ UNCHANGED <<role_assignments, now, permissions, sessions, lifecycle_events, cleanup_jobs,
                 lifecycle_config>>

\* the view counted before the content is decrypted
download_document_count_first(u, d) ==
    /\ IF ~Exists(d)
       THEN /\ LogOrphan(d, u)
            /\ resp' = Response("download", 404, NoContent)
            /\ UNCHANGED documents
       ELSE \E unpads \in BOOLEAN :
            LET a == is_accessible_by(documents[d], u, now)
                dec == decrypt_to_base64_content(a.doc.encrypted_content,
                                                 a.doc.encryption_iv, a.doc.id,
                                                 ENCRYPTION_KEY, unpads)
                counted == flush(documents[d], increment_access_count(a.doc, now), now)
            IN  IF ~a.ok
                THEN /\ documents' = PutDocument(d, flush(documents[d], a.doc, now))
                     /\ access_logs' = log_access(access_logs, d, u, "access_denied", FALSE, now)
                     /\ resp' = Response("download", 403, NoContent)
                ELSE IF dec.ok
                THEN /\ documents' = PutDocument(d, counted)
                     /\ access_logs' = log_access(access_logs, d, u, "download", TRUE, now)
                     /\ resp' = Response("download", 200, dec.content)
                ELSE /\ documents' = PutDocument(d, counted)
                     /\ access_logs' = log_access(access_logs, d, u, "access_denied", FALSE, now)
                     /\ resp' = Response("download", 500, NoContent)
    /\ UNCHANGED <<role_assignments, now, permissions, sessions, lifecycle_events, cleanup_jobs,
                 lifecycle_config>>

download_document(u, d) == download_document_logging(u, d, FALSE)

\* every field of the request written, the ones left out included
ApplyUpdate_overwrite(doc, title, description, expires_at, view_limit) ==
    [doc EXCEPT !.title = IF title # NullText THEN title ELSE @,
                !.description = description,
                !.expires_at = expires_at,
                !.view_limit = view_limit]

ApplyUpdate(doc, title, description, expires_at, view_limit) ==
    [doc EXCEPT !.title = IF title # NullText THEN title ELSE @,
                !.description = IF description # NullText THEN description ELSE @,
                !.expires_at = IF expires_at # None THEN expires_at ELSE @,
                !.view_limit = IF view_limit # None THEN view_limit ELSE @]

update_document_logging(u, d, title, description, expires_at, view_limit, log_fails) ==
    /\ IF ~Exists(d)
       THEN /\ resp' = Response("update", 404, NoContent)
            /\ UNCHANGED <<role_assignments, documents, access_logs>>
       ELSE IF documents[d].sender_id # u
       THEN /\ access_logs' = try_log_access(access_logs, d, u, "access_denied", FALSE, now, log_fails)
            /\ resp' = Response("update", 403, NoContent)
            /\ UNCHANGED documents
       ELSE /\ documents' = PutDocument(d, flush(documents[d],
                   update_status(ApplyUpdate(documents[d], title, description,
                                             expires_at, view_limit), now), now))
            /\ access_logs' = try_log_access(access_logs, d, u, "update", TRUE, now, log_fails)
            /\ resp' = Response("update", 200, NoContent)
    /\ UNCHANGED <<role_assignments, now, permissions, sessions, lifecycle_events, cleanup_jobs,
                 lifecycle_config>>

update_document(u, d, title, description, expires_at, view_limit) ==
    update_document_logging(u, d, title, description, expires_at, view_limit, FALSE)

\* the soft delete left to the commit of the log write, and lost with it
delete_document_logging_one_commit(u, d, log_fails) ==
    /\ IF ~Exists(d)
       THEN /\ resp' = Response("delete", 404, NoContent)
            /\ UNCHANGED <<documents, access_logs>>
       ELSE IF documents[d].sender_id # u
       THEN /\ access_logs' = try_log_access(access_logs, d, u, "access_denied", FALSE, now, log_fails)
            /\ resp' = Response("delete", 403, NoContent)
            /\ UNCHANGED documents
       ELSE /\ documents' = IF log_fails THEN documents
                            ELSE PutDocument(d, flush(documents[d],
                                                      soft_delete(documents[d], now), now))
            /\ access_logs' = try_log_access(access_logs, d, u, "delete", TRUE, now, log_fails)
            /\ resp' = Response("delete", 200, NoContent)
    /\ UNCHANGED <<role_assignments, now, permissions, sessions, lifecycle_events, cleanup_jobs,
                   lifecycle_config>>

delete_document_logging(u, d, log_fails) ==
    /\ IF ~Exists(d)
       THEN /\ resp' = Response("delete", 404, NoContent)
            /\ UNCHANGED <<role_assignments, documents, access_logs>>
       ELSE IF documents[d].sender_id # u
       THEN /\ access_logs' = try_log_access(access_logs, d, u, "access_denied", FALSE, now, log_fails)
            /\ resp' = Response("delete", 403, NoContent)
            /\ UNCHANGED documents
       ELSE /\ documents' = PutDocument(d, flush(documents[d], soft_delete(documents[d], now), now))
            /\ access_logs' = try_log_access(access_logs, d, u, "delete", TRUE, now, log_fails)
            /\ resp' = Response("delete", 200, NoContent)
    /\ UNCHANGED <<role_assignments, now, permissions, sessions, lifecycle_events, cleanup_jobs,
                 lifecycle_config>>

delete_document(u, d) == delete_document_logging(u, d, FALSE)

(***************************************************************************)
(* Permission-aware document routes                                        *)
(***************************************************************************)
Forbidden(op) ==
    /\ resp' = Response(op, 403, NoContent)
    /\ UNCHANGED <<role_assignments, now, documents, permissions, access_logs, sessions, lifecycle_events, cleanup_jobs,
                 lifecycle_config>>

(***************************************************************************)
(* System roles                                                            *)
(***************************************************************************)
\* the role rows the table holds; viewer stands for the ones other than admin
RoleNames == {"admin", "viewer"}

\* every assignment counted, lapsed ones included
get_user_roles_no_expiry(assignments, user_id, t) ==
    {a.role : a \in {x \in assignments : x.user_id = user_id}}

get_user_roles(assignments, user_id, t) ==
    {a.role : a \in {x \in assignments :
                        /\ x.user_id = user_id
                        /\ (x.expires_at = None \/ x.expires_at > t)}}

has_role(assignments, user_id, role_name, t) ==
    LET user_roles == get_user_roles(assignments, user_id, t)
    IN  role_name \in user_roles \/ "admin" \in user_roles

assign_user_role(assignments, user_id, role_name, assigned_by, expires_at, t) ==
    LET existing == {a \in assignments : a.user_id = user_id /\ a.role = role_name}
        row == [user_id |-> user_id, role |-> role_name, assigned_by |-> assigned_by,
                assigned_at |-> t, expires_at |-> expires_at]
    IN  IF role_name \notin RoleNames
        THEN [ok |-> FALSE, assignments |-> assignments]
        ELSE [ok |-> TRUE, assignments |-> (assignments \ existing) \cup {row}]

\* the system admin role let through every capability check
HasPermission_admin_role(u, d, permission) ==
    \/ has_role(role_assignments, u, "admin", now)
    \/ check_document_permission(documents, permissions, u, d, permission, now)

HasPermission(u, d, permission) ==
    check_document_permission(documents, permissions, u, d, permission, now)

get_document_with_permissions(u, d) ==
    IF ~HasPermission(u, d, "read") THEN Forbidden("get") ELSE get_document(u, d)

download_document_with_permission(u, d) ==
    IF ~HasPermission(u, d, "read") THEN Forbidden("download")
    ELSE download_document(u, d)

update_document_with_permission(u, d, title, description, expires_at, view_limit) ==
    IF ~HasPermission(u, d, "write") THEN Forbidden("update")
    ELSE update_document(u, d, title, description, expires_at, view_limit)

delete_document_with_permission(u, d) ==
    IF ~HasPermission(u, d, "delete") THEN Forbidden("delete")
    ELSE delete_document(u, d)

(***************************************************************************)
(* Permission routes                                                       *)
(***************************************************************************)
RECURSIVE GrantEach(_, _, _, _, _, _)
GrantEach(perms, targets, permission_type, granted_by, expires_at, t) ==
    IF targets = {} THEN perms
    ELSE LET x == CHOOSE y \in targets : TRUE
         IN  GrantEach(grant_document_permission(perms, x[1], x[2], permission_type,
                                                 granted_by, expires_at, t),
                       targets \ {x}, permission_type, granted_by, expires_at, t)

api_grant_document_permission(caller, d, u, permission_type, expires_at) ==
    /\ IF ~HasPermission(caller, d, "admin")
       THEN /\ resp' = Response("grant", 403, NoContent)
            /\ UNCHANGED permissions
       ELSE IF permission_type \notin PermissionType
       THEN /\ resp' = Response("grant", 400, NoContent)
            /\ UNCHANGED permissions
       ELSE /\ permissions' = grant_document_permission(permissions, d, u, permission_type,
                                                        caller, expires_at, now)
            /\ resp' = Response("grant", 200, NoContent)
    /\ UNCHANGED <<role_assignments, now, documents, access_logs, sessions, lifecycle_events, cleanup_jobs,
                 lifecycle_config>>

api_revoke_document_permission(caller, d, u, permission_type) ==
    /\ IF ~HasPermission(caller, d, "admin")
       THEN /\ resp' = Response("revoke", 403, NoContent)
            /\ UNCHANGED permissions
       ELSE LET r == revoke_document_permission(permissions, d, u, permission_type)
            IN  /\ permissions' = r.perms
                /\ resp' = Response("revoke", IF r.found THEN 200 ELSE 404, NoContent)
    /\ UNCHANGED <<role_assignments, now, documents, access_logs, sessions, lifecycle_events, cleanup_jobs,
                 lifecycle_config>>

bulk_grant_permissions(caller, ds, u, permission_type, expires_at) ==
    /\ LET allowed == {d \in ds : HasPermission(caller, d, "admin")}
           targets == IF permission_type \in PermissionType
                      THEN {<<d, u>> : d \in allowed} ELSE {}
       IN  permissions' = GrantEach(permissions, targets, permission_type, caller,
                                    expires_at, now)
    /\ resp' = Response("bulk_grant", 200, NoContent)
    /\ UNCHANGED <<role_assignments, now, documents, access_logs, sessions, lifecycle_events, cleanup_jobs,
                 lifecycle_config>>

bulk_share_documents(caller, ds, recipient_ids, permission_type, expires_at) ==
    /\ LET allowed == {d \in ds : HasPermission(caller, d, "share")}
           targets == IF permission_type \in PermissionType
                      THEN allowed \X recipient_ids ELSE {}
       IN  permissions' = GrantEach(permissions, targets, permission_type, caller,
                                    expires_at, now)
    /\ resp' = Response("bulk_share", 200, NoContent)
    /\ UNCHANGED <<role_assignments, now, documents, access_logs, sessions, lifecycle_events, cleanup_jobs,
                 lifecycle_config>>

check_permissions(u, d, permission_type) ==
    /\ resp' = Response("check", 200, <<HasPermission(u, d, permission_type)>>)
    /\ UNCHANGED <<role_assignments, now, documents, permissions, access_logs, sessions, lifecycle_events, cleanup_jobs,
                 lifecycle_config>>

(***************************************************************************)
(* download_document as two requests may interleave it: the row is read    *)
(* and checked in one step, and the session's changes are written in a     *)
(* later one                                                               *)
(***************************************************************************)
WriteChanged(row, loaded, new, t) ==
    IF new = loaded THEN row
    ELSE [a \in DOMAIN row |->
            IF a = "updated_at" THEN t
            ELSE IF new[a] # loaded[a] THEN new[a] ELSE row[a]]

download_begin(s, u, d) ==
    /\ sessions[s].pc = "idle"
    /\ IF ~Exists(d)
       THEN /\ LogOrphan(d, u)
            /\ resp' = Response("download", 404, NoContent)
            /\ UNCHANGED <<role_assignments, documents, sessions>>
       ELSE LET a == is_accessible_by(documents[d], u, now)
            IN  IF ~a.ok
                THEN /\ documents' = PutDocument(d, flush(documents[d], a.doc, now))
                     /\ access_logs' = log_access(access_logs, d, u, "access_denied", FALSE, now)
                     /\ resp' = Response("download", 403, NoContent)
                     /\ UNCHANGED sessions
                ELSE /\ sessions' = [sessions EXCEPT ![s] =
                            [pc |-> "loaded", user |-> u, doc |-> d,
                             loaded |-> documents[d], cur |-> a.doc]]
                     /\ UNCHANGED <<role_assignments, documents, access_logs, resp>>
    /\ UNCHANGED <<role_assignments, now, permissions, lifecycle_events, cleanup_jobs,
                 lifecycle_config>>

download_commit(s) ==
    /\ sessions[s].pc = "loaded"
    /\ Exists(sessions[s].doc)
    /\ LET u == sessions[s].user
           d == sessions[s].doc
           loaded == sessions[s].loaded
           cur == sessions[s].cur
           dec == decrypt_to_base64_content(cur.encrypted_content, cur.encryption_iv, cur.id,
                                            ENCRYPTION_KEY, FALSE)
       IN  IF dec.ok
           THEN /\ documents' = PutDocument(d, WriteChanged(documents[d], loaded,
                                               increment_access_count(cur, now), now))
                /\ access_logs' = log_access(access_logs, d, u, "download", TRUE, now)
                /\ resp' = Response("download", 200, dec.content)
           ELSE /\ documents' = PutDocument(d, WriteChanged(documents[d], loaded, cur, now))
                /\ access_logs' = log_access(access_logs, d, u, "access_denied", FALSE, now)
                /\ resp' = Response("download", 500, NoContent)
    /\ sessions' = [sessions EXCEPT ![s] = IdleSession]
    /\ UNCHANGED <<role_assignments, now, permissions, lifecycle_events, cleanup_jobs,
                 lifecycle_config>>

(***************************************************************************)
(* Request inputs                                                          *)
(***************************************************************************)
FutureExpiry == {t \in Times : t > now}
ExpiryChoice == {None} \cup FutureExpiry
ViewLimitChoice == {None} \cup (1..MaxViewLimit)
GrantExpiry == {None, 1}
Grantees == {"u2", "u3"}

LogRoom == Len(access_logs) < MaxLogs

PermRoom(perms) ==
    Cardinality({<<p.document_id, p.user_id, p.permission_type>> : p \in perms}) <= MaxPerms

(***************************************************************************)
(* Document requests, one at a time                                        *)
(***************************************************************************)
Create ==
    /\ LogRoom
    /\ \E recipient_id \in {"u2", "nobody"},
          expires_at \in ExpiryChoice, view_limit \in ViewLimitChoice,
          content \in Contents, iv \in IVs, master_key \in MasterKeys :
           create_document("u1", recipient_id, "t1", NullText, b64encode(content),
                           expires_at, view_limit, iv, master_key)

Get == LogRoom /\ \E u \in Users, d \in DocIds : get_document(u, d)

Download == LogRoom /\ \E u \in Users, d \in DocIds : download_document(u, d)

Update ==
    /\ LogRoom
    /\ \E u \in Users, d \in DocIds, title \in {NullText, "t2"},
          expires_at \in ExpiryChoice, view_limit \in ViewLimitChoice :
           update_document(u, d, title, NullText, expires_at, view_limit)

Delete == LogRoom /\ \E u \in Users, d \in DocIds : delete_document(u, d)

Next ==
    \/ Tick
    \/ Create
    \/ Get
    \/ Download
    \/ Update
    \/ Delete

Spec == Init /\ [][Next]_vars

(***************************************************************************)
(* Status as the documented precedence order gives it, from the fields and *)
(* the clock alone                                                         *)
(***************************************************************************)
PrecedenceStatus(doc, t) ==
    IF doc.deleted_at # None THEN "deleted"
    ELSE IF doc.expires_at # None /\ t > doc.expires_at THEN "expired"
    ELSE IF doc.view_limit # None /\ doc.access_count >= doc.view_limit
         THEN "view_exhausted"
    ELSE "active"

LastLog == access_logs[Len(access_logs)]

DownloadCount(d) ==
    Cardinality({i \in 1..Len(access_logs) :
                    /\ access_logs[i].document_id = d
                    /\ access_logs[i].action = "download"
                    /\ access_logs[i].success})

C6_DownloadOnlyWhenActive ==
    [][\A u \in Users, d \in DocIds :
          (Exists(d) /\ resp'.op = "download" /\ download_document(u, d)) =>
             /\ resp'.code = 200 =>
                   /\ PrecedenceStatus(documents[d], now) = "active"
                   /\ u \in {documents[d].sender_id, documents[d].recipient_id}
             /\ PrecedenceStatus(documents[d], now) # "active" =>
                   /\ resp'.code = 403
                   /\ resp'.content = NoContent
                   /\ documents'[d].access_count = documents[d].access_count
                   /\ access_logs' = log_access(access_logs, d, u, "access_denied", FALSE, now)]_vars

C6_Witness ==
    /\ resp.op = "download"
    /\ resp.code = 403
    /\ \E d \in DOMAIN documents :
          /\ LastLog.document_id = d
          /\ LastLog.user_id = documents[d].sender_id
          /\ LastLog.action = "access_denied"
          /\ documents[d].status = "view_exhausted"

(***************************************************************************)
(* Downloads of one view-limited document                                  *)
(***************************************************************************)
ViewDocument(n) ==
    Uploaded(NewDocument("d1", "u1", "u2", "t1", NullText, None, n, 0),
             encrypt_base64_content(b64encode("c1"), "d1", "iv1", ENCRYPTION_KEY))

InitView ==
    /\ now = 0
    /\ \E n \in 1..MaxViewDocLimit : documents = [d \in {"d1"} |-> ViewDocument(n)]
    /\ permissions = {}
    /\ access_logs = log_access(<<>>, "d1", "u1", "upload", TRUE, 0)
    /\ resp = Response("create", 200, NoContent)
    /\ sessions = [s \in Sessions |-> IdleSession]
    /\ lifecycle_events = <<>>
    /\ cleanup_jobs = <<>>
    /\ role_assignments = {}
    /\ lifecycle_config = DefaultConfig

ViewLogRoom == Len(access_logs) < MaxViewLogs

ViewDownload == ViewLogRoom /\ \E u \in Users : download_document(u, "d1")

ViewGet == ViewLogRoom /\ \E u \in Users : get_document(u, "d1")

NextView == ViewDownload \/ ViewGet

SpecView == InitView /\ [][NextView]_vars

\* C1: of the downloads of a document with view limit n and no expiry, made
\* one after another by its sender or recipient, exactly the first n succeed;
\* the k-th success leaves access_count = k, the n-th leaves the status
\* VIEW_EXHAUSTED, and every later one is refused and changes nothing
C1_ViewLimitSequential ==
    /\ [](\A d \in DOMAIN documents :
            /\ documents[d].access_count = DownloadCount(d)
            /\ documents[d].access_count <= documents[d].view_limit
            /\ documents[d].access_count = documents[d].view_limit
                  <=> documents[d].status = "view_exhausted"
            /\ documents[d].access_count < documents[d].view_limit
                  <=> documents[d].status = "active")
    /\ [][\A u \in Users, d \in DocIds :
            (/\ Exists(d)
             /\ u \in {documents[d].sender_id, documents[d].recipient_id}
             /\ download_document(u, d)) =>
                IF documents[d].access_count < documents[d].view_limit
                THEN /\ resp'.code = 200
                     /\ resp'.content = b64encode("c1")
                     /\ documents'[d].access_count = documents[d].access_count + 1
                ELSE /\ resp'.code = 403
                     /\ resp'.content = NoContent
                     /\ documents'[d] = documents[d]]_vars

C1_Witness ==
    /\ resp.op = "download"
    /\ resp.code = 403
    /\ LastLog.user_id = "u2"
    /\ documents["d1"].view_limit = MaxViewDocLimit
    /\ documents["d1"].access_count = MaxViewDocLimit
    /\ documents["d1"].status = "view_exhausted"

(***************************************************************************)
(* Downloads of one view-limited document by two requests at once          *)
(***************************************************************************)
Loaded == {s \in Sessions : sessions[s].pc = "loaded"}

ConcLogRoom == Len(access_logs) + Cardinality(Loaded) < MaxConcLogs

DownloadBegin ==
    ConcLogRoom /\ \E s \in Sessions, u \in Users : download_begin(s, u, "d1")

DownloadCommit == \E s \in Sessions : download_commit(s)

NextConc == DownloadBegin \/ DownloadCommit

SpecConc == InitView /\ [][NextConc]_vars

\* C2: however two download_document calls on one document interleave, the
\* content is returned at most view_limit times and access_count counts
\* every return
C2_NoConcurrentOverDelivery ==
    \A d \in DOMAIN documents :
        /\ DownloadCount(d) <= documents[d].view_limit
        /\ documents[d].access_count = DownloadCount(d)

(***************************************************************************)
(* Permission requests on one shared document                              *)
(***************************************************************************)
SharedDocument ==
    Uploaded(NewDocument("d1", "u1", "u2", "t1", NullText, None, None, 0),
             encrypt_base64_content(b64encode("c1"), "d1", "iv1", ENCRYPTION_KEY))

InitPerm ==
    /\ now = 0
    /\ documents = [d \in {"d1"} |-> SharedDocument]
    /\ permissions = {}
    /\ access_logs = log_access(<<>>, "d1", "u1", "upload", TRUE, 0)
    /\ resp = Response("create", 200, NoContent)
    /\ sessions = [s \in Sessions |-> IdleSession]
    /\ lifecycle_events = <<>>
    /\ cleanup_jobs = <<>>
    /\ role_assignments = {}
    /\ lifecycle_config = DefaultConfig

PermTick ==
    /\ now < MaxPermTime
    /\ now' = now + 1
    /\ UNCHANGED <<role_assignments, documents, permissions, access_logs, resp, sessions, lifecycle_events, cleanup_jobs,
                 lifecycle_config>>

\* read is what a recipient holds anyway, admin is what granting requires,
\* write stands for the types that no rule singles out
GrantTypes == {"read", "write", "admin"}

Grant ==
    \E caller \in Users, d \in DocIds, u \in Grantees,
       permission_type \in GrantTypes \cup {"invalid"}, expires_at \in GrantExpiry :
        /\ api_grant_document_permission(caller, d, u, permission_type, expires_at)
        /\ PermRoom(permissions')

Revoke ==
    \E caller \in Users, d \in DocIds, u \in Grantees, permission_type \in GrantTypes :
        api_revoke_document_permission(caller, d, u, permission_type)

Check ==
    \E u \in Users, d \in DocIds, permission_type \in PermissionType :
        check_permissions(u, d, permission_type)

NextPerm ==
    \/ PermTick
    \/ Grant
    \/ Revoke
    \/ Check

SpecPerm == InitPerm /\ [][NextPerm]_vars

IsSender(u, d) == Exists(d) /\ documents[d].sender_id = u

IsRecipient(u, d) == Exists(d) /\ documents[d].recipient_id = u

Lapsed(p) == p.expires_at # None /\ p.expires_at <= now

LiveRows(u, d) == {p \in permissions : p.document_id = d /\ p.user_id = u /\ ~Lapsed(p)}

\* C4: check_document_permission is true exactly for the sender, for the
\* recipient asking for read, and for the holder of a grant row for that very
\* (document, user, capability) that has no expiry or a future one
C4_CheckPermissionIff ==
    \A u \in Users, d \in DocIds, c \in PermissionType :
        /\ HasPermission(u, d, c) <=>
              \/ IsSender(u, d)
              \/ IsRecipient(u, d) /\ c = "read"
              \/ \E p \in permissions :
                    /\ p.document_id = d /\ p.user_id = u /\ p.permission_type = c
                    /\ (p.expires_at = None \/ p.expires_at > now)
        /\ IsSender(u, d) => HasPermission(u, d, c)
        /\ (IsRecipient(u, d) /\ ~IsSender(u, d) /\ LiveRows(u, d) = {})
              => (HasPermission(u, d, c) <=> c = "read")
        /\ (/\ ~IsSender(u, d) /\ ~IsRecipient(u, d)
            /\ LiveRows(u, d) # {}
            /\ \A p \in LiveRows(u, d) : p.permission_type = "write")
              => (HasPermission(u, d, c) <=> c = "write")

C4_Witness ==
    /\ resp.op = "check"
    /\ resp.content = <<FALSE>>
    /\ LiveRows("u3", "d1") # {}
    /\ \A p \in LiveRows("u3", "d1") : p.permission_type = "write"

\* C9: a grant row whose expiry has passed never makes the check true, the
\* check leaves every row as it is, and revoking such a row still succeeds
C9_ExpiredGrantInert ==
    /\ [](\A p \in permissions :
            (/\ Lapsed(p)
             /\ ~IsSender(p.user_id, p.document_id)
             /\ ~(IsRecipient(p.user_id, p.document_id) /\ p.permission_type = "read"))
               => ~HasPermission(p.user_id, p.document_id, p.permission_type))
    /\ [][resp'.op = "check" =>
            \A u \in Users, d \in DocIds, c \in PermissionType :
               check_permissions(u, d, c) => permissions' = permissions]_vars
    /\ [][\A caller \in Users, p \in permissions :
            (/\ resp'.op = "revoke"
             /\ Lapsed(p)
             /\ HasPermission(caller, p.document_id, "admin")
             /\ api_revoke_document_permission(caller, p.document_id, p.user_id,
                                               p.permission_type))
               => (resp'.code = 200 /\ permissions' = permissions \ {p})]_vars

C9_Witness ==
    /\ resp.op = "check"
    /\ resp.content = <<FALSE>>
    /\ \E p \in permissions : Lapsed(p) /\ p.user_id = "u3" /\ LiveRows("u3", "d1") = {}

ShareTypes == {"share", "admin"}

DocumentBatches == (SUBSET DocIds) \ {{}}

RecipientBatches == (SUBSET Grantees) \ {{}}

ShareRoom(perms) ==
    Cardinality({<<p.document_id, p.user_id, p.permission_type>> : p \in perms}) <= MaxSharePerms

ShareGrant ==
    \E caller \in Users, d \in DocIds, u \in Grantees,
       permission_type \in ShareTypes, expires_at \in GrantExpiry :
        /\ api_grant_document_permission(caller, d, u, permission_type, expires_at)
        /\ ShareRoom(permissions')

ShareRevoke ==
    \E caller \in Users, d \in DocIds, u \in Grantees, permission_type \in ShareTypes :
        api_revoke_document_permission(caller, d, u, permission_type)

BulkGrant ==
    \E caller \in Users, ds \in DocumentBatches, u \in Grantees,
       permission_type \in ShareTypes \cup {"invalid"}, expires_at \in GrantExpiry :
        /\ bulk_grant_permissions(caller, ds, u, permission_type, expires_at)
        /\ ShareRoom(permissions')

BulkShare ==
    \E caller \in Users, ds \in DocumentBatches, recipient_ids \in RecipientBatches,
       permission_type \in ShareTypes \cup {"invalid"}, expires_at \in GrantExpiry :
        /\ bulk_share_documents(caller, ds, recipient_ids, permission_type, expires_at)
        /\ ShareRoom(permissions')

NextShare ==
    \/ PermTick
    \/ ShareGrant
    \/ ShareRevoke
    \/ BulkGrant
    \/ BulkShare

SpecShare == InitPerm /\ [][NextShare]_vars

\* C5: every grant row that a request creates or rewrites is written by a
\* caller who passes the admin check on the row's document at that moment
C5_GrantsOnlyByAdmin ==
    [][\A p \in permissions' \ permissions :
          HasPermission(p.granted_by, p.document_id, "admin")]_vars

(***************************************************************************)
(* The permission-aware document routes on one shared document             *)
(***************************************************************************)
RouteLogRoom == Len(access_logs) < MaxRouteLogs

RouteGrant ==
    \E caller \in Users, d \in DocIds, u \in Grantees,
       permission_type \in {"read", "write"}, expires_at \in GrantExpiry :
        /\ api_grant_document_permission(caller, d, u, permission_type, expires_at)
        /\ PermRoom(permissions')

RouteGet ==
    RouteLogRoom /\ \E u \in Users, d \in DocIds : get_document_with_permissions(u, d)

RouteDownload ==
    RouteLogRoom /\ \E u \in Users, d \in DocIds : download_document_with_permission(u, d)

RouteUpdate ==
    /\ RouteLogRoom
    /\ \E u \in Users, d \in DocIds, title \in {NullText, "t2"} :
          update_document_with_permission(u, d, title, NullText, None, None)

RouteDelete ==
    RouteLogRoom /\ \E u \in Users, d \in DocIds : delete_document_with_permission(u, d)

NextRoutes ==
    \/ RouteGrant
    \/ RouteGet
    \/ RouteDownload
    \/ RouteUpdate
    \/ RouteDelete

SpecRoutes == InitPerm /\ [][NextRoutes]_vars

Outsider(u, d) == Exists(d) /\ ~IsSender(u, d) /\ ~IsRecipient(u, d)

\* C7: a user who is neither sender nor recipient of an ACTIVE document and
\* holds a live read grant on it gets the metadata with a VIEW log from the
\* read route, and the content from the download route
C7_ReadGranteeAllowed ==
    [][\A u \in Users, d \in DocIds :
          (/\ Outsider(u, d)
           /\ PrecedenceStatus(documents[d], now) = "active"
           /\ \E p \in LiveRows(u, d) : p.permission_type = "read")
             => /\ get_document_with_permissions(u, d) =>
                      /\ resp'.code = 200
                      /\ access_logs' = log_access(access_logs, d, u, "view", TRUE, now)
                /\ download_document_with_permission(u, d) =>
                      /\ resp'.code = 200
                      /\ resp'.content = b64encode("c1")]_vars

\* C8: a user who is neither sender nor recipient and holds a live write
\* grant and nothing else has an update accepted, with the given fields
\* changed, and a delete refused, with the document left as it is
C8_WriteGranteeUpdates ==
    [][\A u \in Users, d \in DocIds, title \in {NullText, "t2"} :
          (/\ Outsider(u, d)
           /\ LiveRows(u, d) # {}
           /\ \A p \in LiveRows(u, d) : p.permission_type = "write")
             => /\ update_document_with_permission(u, d, title, NullText, None, None) =>
                      /\ resp'.code = 200
                      /\ title # NullText => documents'[d].title = title
                /\ delete_document_with_permission(u, d) =>
                      /\ resp'.code = 403
                      /\ documents'[d] = documents[d]]_vars

\* C11: a revoke by a caller with admin removes the row of exactly that
\* (document, user, capability) and reports success when the row exists, and
\* otherwise reports not-found and leaves every row as it is; after a
\* successful one the check for the triple is false unless the user is the
\* sender or the recipient asking for read
C11_RevokeIffRowExists ==
    [][\A caller \in Users, d \in DocIds, u \in Users, c \in PermissionType :
          (/\ resp'.op = "revoke"
           /\ HasPermission(caller, d, "admin")
           /\ api_revoke_document_permission(caller, d, u, c))
             => LET rows == {p \in permissions : SameTriple(p, d, u, c)}
                IN  IF rows # {}
                    THEN /\ resp'.code = 200
                         /\ permissions' = permissions \ rows
                         /\ (~IsSender(u, d) /\ ~(IsRecipient(u, d) /\ c = "read"))
                               => ~check_document_permission(documents', permissions',
                                                             u, d, c, now')
                    ELSE /\ resp'.code = 404
                         /\ permissions' = permissions]_vars

C11_Witness ==
    /\ resp.op = "revoke"
    /\ resp.code = 200
    /\ permissions = {}
    /\ ~HasPermission("u3", "d1", "write")

(***************************************************************************)
(* The sender's and the others' update and delete requests on one shared   *)
(* document                                                                *)
(***************************************************************************)
OwnerLogRoom == Len(access_logs) < MaxOwnerLogs

OwnerUpdate ==
    /\ OwnerLogRoom
    /\ \E u \in Users, d \in DocIds, title \in {NullText, "t2"},
          description \in {NullText, "x1"},
          expires_at \in ExpiryChoice, view_limit \in ViewLimitChoice :
           update_document(u, d, title, description, expires_at, view_limit)

OwnerDelete == OwnerLogRoom /\ \E u \in Users, d \in DocIds : delete_document(u, d)

\* the recipient's downloads, which move access_count
OwnerDownload == OwnerLogRoom /\ \E d \in DocIds : download_document("u2", d)

NextOwner ==
    \/ Tick
    \/ OwnerUpdate
    \/ OwnerDelete
    \/ OwnerDownload

SpecOwner == InitPerm /\ [][NextOwner]_vars

Untouchable ==
    {"id", "access_count", "sender_id", "recipient_id", "file_name", "file_size",
     "encrypted_content", "encryption_iv", "deleted_at", "created_at"}

\* C12: an update asked by anyone but the sender is refused and changes no
\* field; asked by the sender it sets the fields of title, description,
\* expires_at and view_limit that the request carries, leaves the others of
\* the four alone, recomputes the status, and never touches access_count,
\* sender, recipient, ciphertext, IV or deleted_at
C12_UpdateFrame ==
    [][\A u \in Users, d \in DocIds, title \in {NullText, "t2"},
          description \in {NullText, "x1"},
          expires_at \in ExpiryChoice, view_limit \in ViewLimitChoice :
          (/\ resp'.op = "update"
           /\ Exists(d)
           /\ update_document(u, d, title, description, expires_at, view_limit))
             => LET old == documents[d]
                    new == documents'[d]
                IN  IF u # old.sender_id
                    THEN /\ resp'.code = 403
                         /\ new = old
                    ELSE /\ resp'.code = 200
                         /\ new.title = (IF title # NullText THEN title ELSE old.title)
                         /\ new.description =
                               (IF description # NullText THEN description ELSE old.description)
                         /\ new.expires_at =
                               (IF expires_at # None THEN expires_at ELSE old.expires_at)
                         /\ new.view_limit =
                               (IF view_limit # None THEN view_limit ELSE old.view_limit)
                         /\ new.status = PrecedenceStatus(new, now)
                         /\ \A f \in Untouchable : new[f] = old[f]]_vars

C12_Witness ==
    /\ resp.op = "update"
    /\ resp.code = 200
    /\ documents["d1"].title = "t2"
    /\ documents["d1"].description = NullText
    /\ documents["d1"].view_limit = 1
    /\ documents["d1"].access_count = 1
    /\ documents["d1"].status = "view_exhausted"

\* C13: a delete asked by the sender sets deleted_at and the status DELETED
\* and logs DELETE; asked by anyone else, the recipient included, it is
\* refused, ACCESS_DENIED is logged, and deleted_at and the status stay
C13_DeleteSenderOnly ==
    [][\A u \in Users, d \in DocIds :
          (resp'.op = "delete" /\ Exists(d) /\ delete_document(u, d))
             => IF u = documents[d].sender_id
                THEN /\ resp'.code = 200
                     /\ documents'[d].deleted_at = now
                     /\ documents'[d].status = "deleted"
                     /\ access_logs' = log_access(access_logs, d, u, "delete", TRUE, now)
                ELSE /\ resp'.code = 403
                     /\ documents'[d].deleted_at = documents[d].deleted_at
                     /\ documents'[d].status = documents[d].status
                     /\ access_logs' =
                           log_access(access_logs, d, u, "access_denied", FALSE, now)]_vars

C13_Witness ==
    /\ resp.op = "delete"
    /\ resp.code = 403
    /\ LastLog.user_id = "u2"
    /\ LastLog.action = "access_denied"
    /\ documents["d1"].deleted_at # None
    /\ documents["d1"].status = "deleted"

(***************************************************************************)
(* Lifecycle service: the three maintenance jobs and their job records     *)
(***************************************************************************)
\* the settings as a job reads them
grace_period_days == get_config_int(lifecycle_config, "cleanup_grace_period_days", 30)

batch_size == get_config_int(lifecycle_config, "cleanup_batch_size", 100)

retention_days == get_config_int(lifecycle_config, "audit_log_retention_days", 2555)

Min(a, b) == IF a <= b THEN a ELSE b

\* what .limit(batch_size).all() may return: the query has no ORDER BY
Batches(eligible, limit) ==
    {b \in SUBSET eligible : Cardinality(b) = Min(limit, Cardinality(eligible))}

RECURSIVE Without(_, _, _)
Without(seq, drop, i) ==
    IF i > Len(seq) THEN <<>>
    ELSE (IF i \in drop THEN <<>> ELSE <<seq[i]>>) \o Without(seq, drop, i + 1)

LifecycleEvent(document_id, event_type, expiration_date, original_filename, file_size, t) ==
    [document_id |-> document_id, event_type |-> event_type, event_timestamp |-> t,
     automated |-> TRUE,
     event_metadata |-> [expiration_date |-> expiration_date,
                         original_filename |-> original_filename,
                         file_size |-> file_size]]

\* where a run may raise: nowhere; in _start_cleanup_job; at the run's own
\* get_db; at the batch commit; in the first _complete_cleanup_job; at the
\* run's get_db and again in _complete_cleanup_job; in both
\* _complete_cleanup_job calls
Faults == {"none", "start", "session", "commit", "finalize", "session_down", "finalize_down"}

start_cleanup_job(jobs, job_type, t) ==
    Append(jobs, [job_type |-> job_type, status |-> "running", started_at |-> t,
                  completed_at |-> None, items_processed |-> 0, items_failed |-> 0,
                  error_message |-> NullText])

complete_cleanup_job(jobs, j, status, error_message, t) ==
    [jobs EXCEPT ![j] = [@ EXCEPT !.status = status,
                                  !.completed_at = t,
                                  !.error_message =
                                      IF error_message # NullText THEN error_message ELSE @]]

\* the job table after a run that started job j and met the given fault
JobOutcome(jobs, j, fault, t) ==
    IF fault = "none" THEN complete_cleanup_job(jobs, j, "completed", NullText, t)
    ELSE IF fault \in {"session", "commit", "finalize"}
    THEN complete_cleanup_job(jobs, j, "failed", fault, t)
    ELSE jobs

\* whether the run's batch commit went through
Committed(fault) == fault \in {"none", "finalize", "finalize_down"}

\* the stored status left out of the selection
expired_docs_any_status(docs, t) ==
    {d \in DOMAIN docs : docs[d].expires_at # None /\ docs[d].expires_at <= t}

expired_docs(docs, t) ==
    {d \in DOMAIN docs :
        /\ docs[d].expires_at # None
        /\ docs[d].expires_at <= t
        /\ docs[d].status = "active"}

RECURSIVE ExpiredEvents(_, _, _)
ExpiredEvents(docs, ds, t) ==
    IF ds = {} THEN <<>>
    ELSE LET d == CHOOSE x \in ds : TRUE
         IN  <<LifecycleEvent(d, "expired", docs[d].expires_at, NullText, None, t)>>
                \o ExpiredEvents(docs, ds \ {d}, t)

\* raising names the selected document, if any, whose event construction
\* raises inside the per-item try: the status assignment before it stays in
\* the session, the event and the count are skipped
expire_documents(fault, raising) ==
    /\ IF fault = "start"
       THEN /\ resp' = Response("expire", 500, NoContent)
            /\ UNCHANGED <<role_assignments, documents, lifecycle_events, cleanup_jobs>>
       ELSE LET jobs == start_cleanup_job(cleanup_jobs, "document_expiration", now)
                selected == expired_docs(documents, now)
                counted == selected \ {raising}
            IN  /\ cleanup_jobs' = JobOutcome(jobs, Len(jobs), fault, now)
                /\ IF Committed(fault)
                   THEN /\ documents' =
                              [d \in DOMAIN documents |->
                                  IF d \in selected
                                  THEN flush(documents[d],
                                             [documents[d] EXCEPT !.status = "expired"], now)
                                  ELSE documents[d]]
                        /\ lifecycle_events' =
                              lifecycle_events \o ExpiredEvents(documents, counted, now)
                   ELSE UNCHANGED <<role_assignments, documents, lifecycle_events>>
                /\ resp' = IF fault = "none"
                           THEN Response("expire", 200, <<Cardinality(counted)>>)
                           ELSE Response("expire", 500, NoContent)
    /\ UNCHANGED <<role_assignments, now, permissions, access_logs, sessions, lifecycle_config>>

\* the grace period left out of the selection
purgeable_docs_no_grace(docs, cutoff_date) ==
    {d \in DOMAIN docs : docs[d].status = "deleted"}

purgeable_docs(docs, cutoff_date) ==
    {d \in DOMAIN docs : docs[d].status = "deleted" /\ docs[d].updated_at <= cutoff_date}

RECURSIVE DeletionEvents(_, _, _)
DeletionEvents(docs, ds, t) ==
    IF ds = {} THEN <<>>
    ELSE LET d == CHOOSE x \in ds : TRUE
         IN  <<LifecycleEvent(d, "permanently_deleted", None, docs[d].file_name,
                              docs[d].file_size, t)>>
                \o DeletionEvents(docs, ds \ {d}, t)

\* the tables as _permanently_delete_document leaves them for the documents
\* ds: their access logs and lifecycle events gone, one permanently_deleted
\* event each, their rows gone
permanently_delete_documents(docs, logs, events, ds, t) ==
    [documents |-> [d \in DOMAIN docs \ ds |-> docs[d]],
     access_logs |-> SelectSeq(logs, LAMBDA l : l.document_id \notin ds),
     lifecycle_events |-> SelectSeq(events, LAMBDA e : e.document_id \notin ds)
                             \o DeletionEvents(docs, ds, t)]

\* document_lifecycle_events.document_id is a NOT NULL foreign key to
\* documents.id with no cascade, on either side of the relationship: a
\* documents row can go only when no event row names it
NoEventRefersTo(ds, events) ==
    \A i \in 1..Len(events) : events[i].document_id \notin ds

cleanup_deleted_documents(fault, enforced) ==
    /\ IF fault = "start"
       THEN /\ resp' = Response("cleanup", 500, NoContent)
            /\ UNCHANGED <<role_assignments, documents, access_logs, lifecycle_events, cleanup_jobs,
                 lifecycle_config>>
       ELSE \E docs_to_delete \in Batches(purgeable_docs(documents,
                                             now - grace_period_days),
                                          batch_size) :
              LET jobs == start_cleanup_job(cleanup_jobs, "document_cleanup", now)
                  after == permanently_delete_documents(documents, access_logs,
                                                        lifecycle_events, docs_to_delete, now)
                  rejected == /\ enforced
                              /\ ~NoEventRefersTo(docs_to_delete, after.lifecycle_events)
                  met == IF fault \in {"none", "finalize", "finalize_down"} /\ rejected
                         THEN "commit" ELSE fault
              IN  /\ cleanup_jobs' = JobOutcome(jobs, Len(jobs), met, now)
                  /\ IF Committed(met)
                     THEN /\ documents' = after.documents
                          /\ access_logs' = after.access_logs
                          /\ lifecycle_events' = after.lifecycle_events
                     ELSE UNCHANGED <<role_assignments, documents, access_logs, lifecycle_events>>
                  /\ resp' = IF met = "none"
                             THEN Response("cleanup", 200, <<Cardinality(docs_to_delete)>>)
                             ELSE Response("cleanup", 500, NoContent)
    /\ UNCHANGED <<role_assignments, now, permissions, sessions, lifecycle_config>>

\* every log taken for an old one
old_logs_all(logs, cutoff_date) == 1..Len(logs)

old_logs(logs, cutoff_date) ==
    {i \in 1..Len(logs) : logs[i].accessed_at <= cutoff_date}

cleanup_old_audit_logs(fault) ==
    /\ IF fault = "start"
       THEN /\ resp' = Response("audit", 500, NoContent)
            /\ UNCHANGED <<role_assignments, access_logs, cleanup_jobs>>
       ELSE \E selected \in Batches(old_logs(access_logs,
                                       now - retention_days),
                               batch_size) :
              LET jobs == start_cleanup_job(cleanup_jobs, "audit_cleanup", now)
              IN  /\ cleanup_jobs' = JobOutcome(jobs, Len(jobs), fault, now)
                  /\ access_logs' = IF Committed(fault)
                                    THEN Without(access_logs, selected, 1)
                                    ELSE access_logs
                  /\ resp' = IF fault = "none"
                             THEN Response("audit", 200, <<Cardinality(selected)>>)
                             ELSE Response("audit", 500, NoContent)
    /\ UNCHANGED <<role_assignments, now, documents, permissions, lifecycle_events, sessions,
                   lifecycle_config>>

(***************************************************************************)
(* Expiry job among document requests                                      *)
(***************************************************************************)
LifeDocs == {"d1", "d2"}

LifeDocument(d, expires_at, view_limit) ==
    Uploaded(NewDocument(d, "u1", "u2", "t1", NullText, expires_at, view_limit, 0),
             encrypt_base64_content(b64encode("c1"), d, "iv1", ENCRYPTION_KEY))

\* two documents uploaded at time 0, each with its own expiry and view limit
InitLife ==
    /\ now = 0
    /\ \E e1 \in ExpiryChoice, e2 \in ExpiryChoice,
          v1 \in ViewLimitChoice, v2 \in ViewLimitChoice :
           documents = [d \in LifeDocs |-> IF d = "d1" THEN LifeDocument(d, e1, v1)
                                                       ELSE LifeDocument(d, e2, v2)]
    /\ permissions = {}
    /\ access_logs = log_access(log_access(<<>>, "d1", "u1", "upload", TRUE, 0),
                                "d2", "u1", "upload", TRUE, 0)
    /\ resp = Response("create", 200, NoContent)
    /\ sessions = [s \in Sessions |-> IdleSession]
    /\ lifecycle_events = <<>>
    /\ cleanup_jobs = <<>>
    /\ role_assignments = {}
    /\ lifecycle_config = DefaultConfig

ExpireLogRoom == Len(access_logs) < MaxExpireLogs

JobRoom == Len(cleanup_jobs) < MaxJobs

ExpireGet == ExpireLogRoom /\ \E d \in LifeDocs : get_document("u2", d)

ExpireDownload == ExpireLogRoom /\ \E d \in LifeDocs : download_document("u2", d)

ExpireDelete == ExpireLogRoom /\ \E d \in LifeDocs : delete_document("u1", d)

ExpireDocuments == JobRoom /\ expire_documents("none", NullText)

NextExpire ==
    \/ Tick
    \/ ExpireGet
    \/ ExpireDownload
    \/ ExpireDelete
    \/ ExpireDocuments

SpecExpire == InitLife /\ [][NextExpire]_vars

LastJob == cleanup_jobs[Len(cleanup_jobs)]

\* events of one type about one document
EventsOf(events, d, event_type) ==
    {i \in 1..Len(events) : events[i].document_id = d /\ events[i].event_type = event_type}

\* the documents an expiry run is due to expire
Due == {d \in DOMAIN documents :
           /\ documents[d].expires_at # None
           /\ documents[d].expires_at <= now
           /\ documents[d].status = "active"}

\* C14: a run of expire_documents that returns sets EXPIRED on exactly the
\* documents that were past their expires_at (boundary included) and stored
\* ACTIVE, appends one 'expired' event per such document carrying its
\* expires_at, returns their number and leaves every other document as it
\* was; a second run right after it returns 0 and appends no event.
C14_ExpireExactlyDue ==
    [][(resp'.op = "expire" /\ resp'.code = 200 /\ Len(cleanup_jobs') = Len(cleanup_jobs) + 1)
        => /\ DOMAIN documents' = DOMAIN documents
           /\ \A d \in DOMAIN documents :
                IF d \in Due
                THEN /\ documents'[d].status = "expired"
                     /\ [documents'[d] EXCEPT !.status = "active", !.updated_at = 0]
                          = [documents[d] EXCEPT !.updated_at = 0]
                ELSE documents'[d] = documents[d]
           /\ Len(lifecycle_events') = Len(lifecycle_events) + Cardinality(Due)
           /\ SubSeq(lifecycle_events', 1, Len(lifecycle_events)) = lifecycle_events
           /\ \A d \in DOMAIN documents :
                LET new == {i \in EventsOf(lifecycle_events', d, "expired") :
                               i > Len(lifecycle_events)}
                IN  IF d \in Due
                    THEN /\ Cardinality(new) = 1
                         /\ \A i \in new : lifecycle_events'[i].event_metadata.expiration_date
                                              = documents[d].expires_at
                    ELSE new = {}
           /\ resp'.content = <<Cardinality(Due)>>
           /\ (resp.op = "expire" /\ resp.code = 200 /\ LastJob.started_at = now)
                => /\ resp'.content = <<0>>
                   /\ lifecycle_events' = lifecycle_events
                   /\ documents' = documents]_vars

\* two runs in a row at the same instant: the first expired d1 and left the
\* other document alone, the second found nothing
C14_Witness ==
    /\ resp = Response("expire", 200, <<0>>)
    /\ Len(cleanup_jobs) = 2
    /\ cleanup_jobs[1].job_type = "document_expiration"
    /\ cleanup_jobs[1].started_at = cleanup_jobs[2].started_at
    /\ documents["d1"].status = "expired"
    /\ Cardinality(EventsOf(lifecycle_events, "d1", "expired")) = 1
    /\ documents["d2"].status # "expired"
    /\ Len(lifecycle_events) = 1

\* C15 as stated: once an expiry run has completed after a document's
\* expires_at has passed, the document is stored EXPIRED and has exactly one 'expired'
\* event, whatever reads and downloads came between.  Documents that were
\* soft-deleted or used up their view limit are left out of the statement.
C15_ExpiredOnceAfterRun ==
    \A d \in DOMAIN documents :
        (/\ documents[d].expires_at # None
         /\ documents[d].deleted_at = None
         /\ documents[d].view_limit = None
         /\ \E j \in 1..Len(cleanup_jobs) :
               /\ cleanup_jobs[j].job_type = "document_expiration"
               /\ cleanup_jobs[j].status = "completed"
               /\ cleanup_jobs[j].started_at > documents[d].expires_at)
        => /\ documents[d].status = "expired"
           /\ Cardinality(EventsOf(lifecycle_events, d, "expired")) = 1

(***************************************************************************)
(* Purge job among soft deletes and expiry runs                            *)
(***************************************************************************)
\* values an administrator may have stored in lifecycle_config
GracePeriods == {"0", "1"}

BatchSizes == {"1", "2"}

RetentionPeriods == {"0", "1"}

InitCleanup ==
    /\ now = 0
    /\ \E e1 \in ExpiryChoice :
           documents = [d \in LifeDocs |-> IF d = "d1" THEN LifeDocument(d, e1, None)
                                                       ELSE LifeDocument(d, None, None)]
    /\ permissions = {}
    /\ access_logs = log_access(log_access(<<>>, "d1", "u1", "upload", TRUE, 0),
                                "d2", "u1", "upload", TRUE, 0)
    /\ resp = Response("create", 200, NoContent)
    /\ sessions = [s \in Sessions |-> IdleSession]
    /\ lifecycle_events = <<>>
    /\ cleanup_jobs = <<>>
    /\ role_assignments = {}
    /\ \E g \in GracePeriods, b \in BatchSizes :
           lifecycle_config = [DefaultConfig EXCEPT !.cleanup_grace_period_days = g,
                                                    !.cleanup_batch_size = b]

CleanupLogRoom == Len(access_logs) < MaxCleanupLogs

CleanupDelete == CleanupLogRoom /\ \E d \in LifeDocs : delete_document("u1", d)

CleanupExpire == JobRoom /\ expire_documents("none", NullText)

\* the declared schema refuses the delete of a documents row that an event
\* row names; the outcome where the delete goes through is kept as well, so
\* that the selection rule is also checked on runs that remove rows
CleanupDocuments == JobRoom /\ \E enforced \in BOOLEAN : cleanup_deleted_documents("none", enforced)

NextCleanup ==
    \/ Tick
    \/ CleanupDelete
    \/ CleanupExpire
    \/ CleanupDocuments

SpecCleanup == InitCleanup /\ [][NextCleanup]_vars

\* a step that is one run of the named job
JobStep(op, job_type) ==
    /\ resp'.op = op
    /\ Len(cleanup_jobs') = Len(cleanup_jobs) + 1
    /\ cleanup_jobs'[Len(cleanup_jobs')].job_type = job_type

Removed == DOMAIN documents \ DOMAIN documents'

\* the documents a purge run may select
Purgeable ==
    {d \in DOMAIN documents :
        /\ documents[d].status = "deleted"
        /\ documents[d].updated_at <= now - grace_period_days}

\* C16: a run of cleanup_deleted_documents removes only documents stored
\* DELETED with updated_at <= now - cleanup_grace_period_days (boundary
\* included), at most cleanup_batch_size of them; every fresher DELETED
\* document and every non-DELETED document is still there, unchanged.
C16_PurgeOnlyPastGrace ==
    [][JobStep("cleanup", "document_cleanup")
        => /\ Removed \subseteq Purgeable
           /\ Cardinality(Removed) <= batch_size
           /\ DOMAIN documents' \subseteq DOMAIN documents
           /\ \A d \in DOMAIN documents' : documents'[d] = documents[d]]_vars

\* a run at time 1 with a grace period of 1: d1, soft-deleted at time 0, was
\* on the cutoff and selected; d2, soft-deleted at time 1, is still stored
C16_Witness ==
    /\ resp.op = "cleanup"
    /\ now = 1
    /\ lifecycle_config.cleanup_grace_period_days = "1"
    /\ "d2" \in DOMAIN documents
    /\ documents["d2"].status = "deleted"
    /\ documents["d2"].updated_at = 1
    /\ \/ "d1" \notin DOMAIN documents
       \/ /\ documents["d1"].status = "deleted"
          /\ documents["d1"].updated_at = 0
          /\ LastJob.status = "failed"

(***************************************************************************)
(* Purge job on a store that holds the declared constraints                *)
(***************************************************************************)
PurgeLogRoom == Len(access_logs) < MaxPurgeLogs

PurgeDelete == PurgeLogRoom /\ \E d \in LifeDocs : delete_document("u1", d)

PurgeExpire == JobRoom /\ expire_documents("none", NullText)

PurgeDocuments == JobRoom /\ cleanup_deleted_documents("none", TRUE)

NextPurge ==
    \/ Tick
    \/ PurgeDelete
    \/ PurgeExpire
    \/ PurgeDocuments

SpecPurge == InitCleanup /\ [][NextPurge]_vars

\* C17 as stated: a purge run taken right after another purge run, with
\* nothing in between, returns 0, removes nothing and is recorded completed.
C17_SecondPurgeIsNoOp ==
    [][(/\ resp.op = "cleanup"
        /\ LastJob.started_at = now
        /\ JobStep("cleanup", "document_cleanup"))
        => /\ resp' = Response("cleanup", 200, <<0>>)
           /\ documents' = documents
           /\ cleanup_jobs'[Len(cleanup_jobs')].status = "completed"]_vars

\* C18 as stated: a purge run that has documents to purge succeeds, and for
\* each purged document its access logs and earlier lifecycle events are
\* gone, while one 'permanently_deleted' event with its file name and size
\* exists after the run and the document does not.
C18_PurgeLeavesAuditEvent ==
    [][(JobStep("cleanup", "document_cleanup") /\ Purgeable # {})
        => /\ resp'.code = 200
           /\ Removed # {}
           /\ \A d \in Removed :
                /\ \A i \in 1..Len(access_logs') : access_logs'[i].document_id # d
                /\ \A i \in 1..Len(lifecycle_events') :
                      lifecycle_events'[i].document_id = d
                          => /\ lifecycle_events'[i].event_type = "permanently_deleted"
                             /\ lifecycle_events'[i].event_metadata.original_filename
                                   = documents[d].file_name
                             /\ lifecycle_events'[i].event_metadata.file_size
                                   = documents[d].file_size
                /\ Cardinality(EventsOf(lifecycle_events', d, "permanently_deleted")) = 1]_vars

(***************************************************************************)
(* Audit log retention job among document requests                         *)
(***************************************************************************)
InitAudit ==
    /\ now = 0
    /\ documents = [d \in LifeDocs |-> LifeDocument(d, None, None)]
    /\ permissions = {}
    /\ access_logs = log_access(log_access(<<>>, "d1", "u1", "upload", TRUE, 0),
                                "d2", "u1", "upload", TRUE, 0)
    /\ resp = Response("create", 200, NoContent)
    /\ sessions = [s \in Sessions |-> IdleSession]
    /\ lifecycle_events = <<>>
    /\ cleanup_jobs = <<>>
    /\ role_assignments = {}
    /\ \E r \in RetentionPeriods, b \in BatchSizes :
           lifecycle_config = [DefaultConfig EXCEPT !.audit_log_retention_days = r,
                                                    !.cleanup_batch_size = b]

AuditLogRoom == Len(access_logs) < MaxAuditLogs

AuditGet == AuditLogRoom /\ \E d \in LifeDocs : get_document("u2", d)

AuditDelete == AuditLogRoom /\ delete_document("u1", "d1")

AuditCleanup == JobRoom /\ cleanup_old_audit_logs("none")

NextAudit ==
    \/ Tick
    \/ AuditGet
    \/ AuditDelete
    \/ AuditCleanup

SpecAudit == InitAudit /\ [][NextAudit]_vars

\* a log newer than the retention cutoff
Retained(l) == l.accessed_at > now - retention_days

InitJobs ==
    /\ now = 0
    /\ \E e1 \in ExpiryChoice :
           documents = [d \in LifeDocs |-> IF d = "d1" THEN LifeDocument(d, e1, None)
                                                       ELSE LifeDocument(d, None, None)]
    /\ permissions = {}
    /\ access_logs = log_access(log_access(<<>>, "d1", "u1", "upload", TRUE, 0),
                                "d2", "u1", "upload", TRUE, 0)
    /\ resp = Response("create", 200, NoContent)
    /\ sessions = [s \in Sessions |-> IdleSession]
    /\ lifecycle_events = <<>>
    /\ cleanup_jobs = <<>>
    /\ role_assignments = {}
    /\ \E g \in GracePeriods :
           lifecycle_config = [DefaultConfig EXCEPT !.cleanup_grace_period_days = g,
                                                    !.cleanup_batch_size = "1",
                                                    !.audit_log_retention_days = "1"]

JobsLogRoom == Len(access_logs) < MaxJobsLogs

JobsDelete == JobsLogRoom /\ \E d \in LifeDocs : delete_document("u1", d)

JobsExpire == JobRoom /\ \E fault \in Faults : expire_documents(fault, NullText)

JobsCleanup == JobRoom /\ \E fault \in Faults : cleanup_deleted_documents(fault, TRUE)

JobsAudit == JobRoom /\ \E fault \in Faults : cleanup_old_audit_logs(fault)

NextJobs ==
    \/ Tick
    \/ JobsDelete
    \/ JobsExpire
    \/ JobsCleanup
    \/ JobsAudit

SpecJobs == InitJobs /\ [][NextJobs]_vars

\* C20 as stated: once an invocation of a job has returned or raised, the
\* CleanupJob row it created is completed or failed with completed_at set,
\* and failed with the error message when the run raised; no row is left
\* running.
C20_NoJobLeftRunning ==
    \A j \in 1..Len(cleanup_jobs) :
        /\ cleanup_jobs[j].status \in {"completed", "failed"}
        /\ cleanup_jobs[j].completed_at # None
        /\ cleanup_jobs[j].status = "failed" => cleanup_jobs[j].error_message # NullText

(***************************************************************************)
(* Job bookkeeping                                                         *)
(***************************************************************************)
\* C21 as stated: when an expiry run finishes, the CleanupJob row it created
\* holds the returned count in items_processed and the number of items that
\* raised, here none, in items_failed.
C21_JobCountsPersisted ==
    [][(JobStep("expire", "document_expiration") /\ resp'.code = 200)
        => /\ <<cleanup_jobs'[Len(cleanup_jobs')].items_processed>> = resp'.content
           /\ cleanup_jobs'[Len(cleanup_jobs')].items_failed = 0]_vars

(***************************************************************************)
(* Expiry runs in which one item raises                                    *)
(***************************************************************************)
ItemsDocuments ==
    JobRoom /\ \E raising \in expired_docs(documents, now) \cup {NullText} :
                  expire_documents("none", raising)

NextItems ==
    \/ Tick
    \/ ExpireGet
    \/ ExpireDelete
    \/ ItemsDocuments

SpecItems == InitLife /\ [][NextItems]_vars

\* C22 as stated: an expiry run in which the processing of at most one
\* selected item raises still finalizes as completed, commits the change of
\* every other selected item, and leaves every document it did not count,
\* the failed one included, as it was.
C22_FailedItemSkipped ==
    [][(JobStep("expire", "document_expiration") /\ resp'.code = 200)
        => /\ cleanup_jobs'[Len(cleanup_jobs')].status = "completed"
           /\ \E failed \in SUBSET Due :
                /\ Cardinality(failed) <= 1
                /\ resp'.content = <<Cardinality(Due \ failed)>>
                /\ \A d \in Due \ failed : documents'[d].status = "expired"
                /\ \A d \in DOMAIN documents \ (Due \ failed) :
                      documents'[d] = documents[d]]_vars

(***************************************************************************)
(* expire_documents as requests may interleave it: the rows are selected   *)
(* and loaded in one step, and the session's changes are committed in a    *)
(* later one                                                               *)
(***************************************************************************)
expire_begin(s) ==
    /\ sessions[s].pc = "idle"
    /\ LET jobs == start_cleanup_job(cleanup_jobs, "document_expiration", now)
           selected == expired_docs(documents, now)
       IN  /\ cleanup_jobs' = jobs
           /\ sessions' = [sessions EXCEPT ![s] =
                  [pc |-> "expire", user |-> "", doc |-> "",
                   loaded |-> [d \in selected |-> documents[d]],
                   cur |-> <<Len(jobs)>>]]
    /\ UNCHANGED <<role_assignments, now, documents, permissions, access_logs, resp, lifecycle_events,
                   lifecycle_config>>

\* the flush writes, for each loaded row, the one attribute the job changed
expire_commit(s) ==
    /\ sessions[s].pc = "expire"
    /\ LET loaded == sessions[s].loaded
           j == sessions[s].cur[1]
       IN  IF DOMAIN loaded \subseteq DOMAIN documents
           THEN /\ documents' =
                      [d \in DOMAIN documents |->
                          IF d \in DOMAIN loaded
                          THEN WriteChanged(documents[d], loaded[d],
                                            [loaded[d] EXCEPT !.status = "expired"], now)
                          ELSE documents[d]]
                /\ lifecycle_events' =
                      lifecycle_events \o ExpiredEvents(loaded, DOMAIN loaded, now)
                /\ cleanup_jobs' = JobOutcome(cleanup_jobs, j, "none", now)
                /\ resp' = Response("expire", 200, <<Cardinality(DOMAIN loaded)>>)
           ELSE /\ cleanup_jobs' = JobOutcome(cleanup_jobs, j, "commit", now)
                /\ resp' = Response("expire", 500, NoContent)
                /\ UNCHANGED <<role_assignments, documents, lifecycle_events>>
    /\ sessions' = [sessions EXCEPT ![s] = IdleSession]
    /\ UNCHANGED <<role_assignments, now, permissions, access_logs, lifecycle_config>>

RaceLogRoom == Len(access_logs) < MaxRaceLogs

RaceUpdate ==
    RaceLogRoom /\ \E d \in LifeDocs, expires_at \in ExpiryChoice,
                      view_limit \in ViewLimitChoice :
                       update_document("u1", d, NullText, NullText, expires_at, view_limit)

RaceDelete == RaceLogRoom /\ \E d \in LifeDocs : delete_document("u1", d)

RaceDownload == RaceLogRoom /\ \E d \in LifeDocs : download_document("u2", d)

ExpireBegin == JobRoom /\ expire_begin("s1")

ExpireCommit == expire_commit("s1")

NextRace ==
    \/ Tick
    \/ RaceUpdate
    \/ RaceDelete
    \/ RaceDownload
    \/ ExpireBegin
    \/ ExpireCommit

SpecRace == InitCleanup /\ [][NextRace]_vars

\* C23 as stated, for the expiry job: however the job interleaves with
\* updates, deletes and downloads, no document is stored EXPIRED while its
\* expires_at is unset or still in the future.
C23_NoExpiredWithFutureExpiry ==
    \A d \in DOMAIN documents :
        documents[d].status = "expired"
            => documents[d].expires_at # None /\ documents[d].expires_at <= now

(***************************************************************************)
(* Uploads with and without a configured master key                        *)
(***************************************************************************)
HasCiphertext(doc) == doc.encrypted_content # <<>> /\ doc.encryption_iv # <<>>

\* C24: every committed document row carries its ciphertext and its IV, and
\* a create_document call that does not succeed leaves the documents table
\* as it was.
C24_NoRowWithoutCiphertext ==
    [][/\ \A d \in DOMAIN documents' : HasCiphertext(documents'[d])
       /\ (resp'.op = "create" /\ resp'.code # 200) => documents' = documents]_vars

\* an upload that failed in encryption: nothing is stored
C24_Witness ==
    /\ resp = Response("create", 500, NoContent)
    /\ documents = NoDocuments
    /\ access_logs = <<>>

(***************************************************************************)
(* Configuration: process start and the administrator's updates            *)
(***************************************************************************)
initialize_lifecycle_config ==
    /\ lifecycle_config' = InitializeFrom(lifecycle_config, 1)
    /\ resp' = Response("initialize", 200, NoContent)
    /\ UNCHANGED <<role_assignments, now, documents, permissions, access_logs, sessions, lifecycle_events,
                   cleanup_jobs>>

update_lifecycle_config(setting_name, setting_value) ==
    /\ lifecycle_config' = set_config_value(lifecycle_config, setting_name, setting_value)
    /\ resp' = Response("config", 200, <<setting_name, setting_value>>)
    /\ UNCHANGED <<role_assignments, now, documents, permissions, access_logs, sessions, lifecycle_events,
                   cleanup_jobs>>

SettingNames == {defaults[i][1] : i \in 1..Len(defaults)}

\* what an administrator may store: a number, a list, or nothing
SettingValues == {"1", "7,1", ""}

InitConfig ==
    /\ now = 0
    /\ documents = NoDocuments
    /\ permissions = {}
    /\ access_logs = <<>>
    /\ resp = NoResponse
    /\ sessions = [s \in Sessions |-> IdleSession]
    /\ lifecycle_events = <<>>
    /\ cleanup_jobs = <<>>
    /\ role_assignments = {}
    /\ lifecycle_config = NoConfig

ConfigUpdate ==
    \E setting_name \in SettingNames, setting_value \in SettingValues :
        update_lifecycle_config(setting_name, setting_value)

NextConfig ==
    \/ initialize_lifecycle_config
    \/ ConfigUpdate

SpecConfig == InitConfig /\ [][NextConfig]_vars

DefaultOf(name) == defaults[CHOOSE i \in 1..Len(defaults) : defaults[i][1] = name][2]

\* C25 as stated: initialize_lifecycle_config leaves one row for each of the
\* five settings, gives a setting that had no row its default, and keeps the
\* value of every setting that had a row, whatever that value is.
C25_InitializeKeepsStoredValues ==
    [][resp'.op = "initialize"
        => /\ DOMAIN lifecycle_config' = SettingNames
           /\ \A n \in SettingNames :
                lifecycle_config'[n] = IF n \in DOMAIN lifecycle_config
                                       THEN lifecycle_config[n]
                                       ELSE DefaultOf(n)]_vars

(***************************************************************************)
(* Document listing                                                        *)
(***************************************************************************)
\* the recipient shown exhausted documents as well
received_condition_unfiltered(doc, user_id) == doc.recipient_id = user_id

received_condition(doc, user_id) ==
    /\ doc.recipient_id = user_id
    /\ doc.view_limit = None \/ doc.access_count < doc.view_limit

\* the rows the query selects; the answer lists them newest first
listed_documents(docs, user_id, sent, received) ==
    IF ~sent /\ ~received THEN {}
    ELSE {d \in DOMAIN docs :
            /\ docs[d].status # "deleted"
            /\ \/ sent /\ docs[d].sender_id = user_id
               \/ received /\ received_condition(docs[d], user_id)}

list_user_documents(u, sent, received) ==
    /\ resp' = Response("list", 200, <<listed_documents(documents, u, sent, received)>>)
    /\ UNCHANGED <<role_assignments, now, documents, permissions, access_logs, sessions, lifecycle_events,
                   cleanup_jobs, lifecycle_config>>

ListLogRoom == Len(access_logs) < MaxListLogs

ListDownload == ListLogRoom /\ \E d \in LifeDocs : download_document("u2", d)

ListDelete == ListLogRoom /\ \E d \in LifeDocs : delete_document("u1", d)

ListDocuments ==
    \E u \in Users, sent \in BOOLEAN, received \in BOOLEAN : list_user_documents(u, sent, received)

NextList ==
    \/ Tick
    \/ ListDownload
    \/ ListDelete
    \/ ListDocuments

SpecList == InitLife /\ [][NextList]_vars

\* C26: list_user_documents never returns a DELETED document; a document of
\* which the caller is recipient and not sender is returned only while its
\* view limit is unset or not yet reached; with sent=true every non-DELETED
\* document the caller sent is returned, exhausted or not; with neither flag
\* the answer is empty.
C26_ListFilters ==
    [][\A u \in Users, sent \in BOOLEAN, received \in BOOLEAN :
         (resp'.op = "list" /\ list_user_documents(u, sent, received))
            => LET result == resp'.content[1]
               IN  /\ \A d \in result : documents[d].status # "deleted"
                   /\ \A d \in result :
                        (documents[d].recipient_id = u /\ documents[d].sender_id # u)
                           => \/ documents[d].view_limit = None
                              \/ documents[d].access_count < documents[d].view_limit
                   /\ sent => \A d \in DOMAIN documents :
                                 (documents[d].sender_id = u /\ documents[d].status # "deleted")
                                    => d \in result
                   /\ (~sent /\ ~received) => result = {}]_vars

\* the recipient's list after d1 used up its view limit: d2 alone
C26_Witness ==
    /\ resp = Response("list", 200, <<{"d2"}>>)
    /\ documents["d1"].status = "view_exhausted"
    /\ documents["d1"].access_count = documents["d1"].view_limit
    /\ documents["d2"].status = "active"

(***************************************************************************)
(* The encryption engine on its own: one caller encrypts, then decrypts    *)
(* what it got under any document id                                       *)
(***************************************************************************)
\* byte strings, the empty one included
CryptoContents == {<<>>, <<"c1">>, <<"c1", "c2">>}

CryptoDocIds == {"d1", "d2", "d3"}

CryptoIVs == {"iv1", "iv2"}

\* the caller keeps what it encrypted, under which id, and what came back
crypto_encrypt(s, content, document_id, iv, base64) ==
    /\ LET enc == IF base64
                  THEN encrypt_base64_content(b64encode(content), document_id, iv,
                                              ENCRYPTION_KEY)
                  ELSE encrypt_content(content, document_id, iv, ENCRYPTION_KEY)
       IN  /\ sessions' = [sessions EXCEPT ![s] =
                  [pc |-> IF base64 THEN "encrypted_base64" ELSE "encrypted",
                   user |-> "", doc |-> document_id,
                   loaded |-> <<content>>, cur |-> enc]]
           /\ resp' = Response("encrypt", 200, <<enc.encrypted_content, enc.iv>>)
    /\ UNCHANGED <<role_assignments, now, documents, permissions, access_logs, lifecycle_events, cleanup_jobs,
                   lifecycle_config>>

\* the caller notes the document id it decrypted under
crypto_decrypt(s, document_id, unpads) ==
    /\ sessions[s].pc \in {"encrypted", "encrypted_base64"}
    /\ LET enc == sessions[s].cur
           r == IF sessions[s].pc = "encrypted_base64"
                THEN decrypt_to_base64_content(enc.encrypted_content, enc.iv, document_id,
                                               ENCRYPTION_KEY, unpads)
                ELSE decrypt_content(enc.encrypted_content, enc.iv, document_id,
                                     ENCRYPTION_KEY, unpads)
       IN  resp' = IF r.ok THEN Response("decrypt", 200, <<r.content>>)
                           ELSE Response("decrypt", 500, NoContent)
    /\ sessions' = [sessions EXCEPT ![s].loaded = <<sessions[s].loaded[1], document_id>>]
    /\ UNCHANGED <<role_assignments, now, documents, permissions, access_logs, lifecycle_events,
                   cleanup_jobs, lifecycle_config>>

CryptoEncrypt ==
    \E content \in CryptoContents, document_id \in CryptoDocIds, iv \in CryptoIVs,
       base64 \in BOOLEAN : crypto_encrypt("s1", content, document_id, iv, base64)

CryptoDecrypt ==
    \E document_id \in CryptoDocIds, unpads \in BOOLEAN : crypto_decrypt("s1", document_id, unpads)

NextCrypto ==
    \/ CryptoEncrypt
    \/ CryptoDecrypt

SpecCrypto == InitConfig /\ [][NextCrypto]_vars

\* the last step decrypted, under document id d2, what was encrypted under d1
Decrypted(d1, d2) ==
    /\ resp.op = "decrypt"
    /\ sessions["s1"].doc = d1
    /\ Len(sessions["s1"].loaded) = 2
    /\ sessions["s1"].loaded[2] = d2

C28_WrongDocumentIdRaises ==
    \A d1 \in CryptoDocIds, d2 \in CryptoDocIds :
       (d1 # d2 /\ Decrypted(d1, d2)) => resp = Response("decrypt", 500, NoContent)

(***************************************************************************)
(* Role assignments next to document permissions: u3 is party to no        *)
(* document and starts with the admin role                                 *)
(***************************************************************************)
require_role(u, required_role) ==
    /\ resp' = Response("require_role",
                        IF has_role(role_assignments, u, required_role, now) THEN 200 ELSE 403,
                        NoContent)
    /\ UNCHANGED <<now, documents, permissions, access_logs, sessions, lifecycle_events,
                   cleanup_jobs, lifecycle_config, role_assignments>>

assign_role(caller, user_id, role_name, expires_at) ==
    /\ IF ~has_role(role_assignments, caller, "admin", now)
       THEN /\ resp' = Response("assign_role", 403, NoContent)
            /\ UNCHANGED role_assignments
       ELSE LET r == assign_user_role(role_assignments, user_id, role_name, caller,
                                      expires_at, now)
            IN  /\ role_assignments' = r.assignments
                /\ resp' = Response("assign_role", IF r.ok THEN 200 ELSE 400, NoContent)
    /\ UNCHANGED <<now, documents, permissions, access_logs, sessions, lifecycle_events,
                   cleanup_jobs, lifecycle_config>>

RoleExpiry == {None} \cup (1..MaxRoleTime)

\* roles are handed to u2
RoleHolders == {"u2"}

InitRoles ==
    /\ now = 0
    /\ documents = [d \in {"d1"} |-> SharedDocument]
    /\ permissions = {}
    /\ access_logs = log_access(<<>>, "d1", "u1", "upload", TRUE, 0)
    /\ resp = Response("create", 200, NoContent)
    /\ sessions = [s \in Sessions |-> IdleSession]
    /\ lifecycle_events = <<>>
    /\ cleanup_jobs = <<>>
    /\ lifecycle_config = DefaultConfig
    /\ \E expires_at \in RoleExpiry :
          role_assignments = {[user_id |-> "u3", role |-> "admin", assigned_by |-> None,
                               assigned_at |-> 0, expires_at |-> expires_at]}

RoleTick ==
    /\ now < MaxRoleTime
    /\ now' = now + 1
    /\ UNCHANGED <<documents, permissions, access_logs, resp, sessions, lifecycle_events,
                   cleanup_jobs, lifecycle_config, role_assignments>>

RoleAssign ==
    \E caller \in Users, user_id \in RoleHolders, role_name \in RoleNames \cup {"nosuch"},
       expires_at \in RoleExpiry : assign_role(caller, user_id, role_name, expires_at)

RoleRequire == \E u \in Users, required_role \in RoleNames : require_role(u, required_role)

\* the sender gives u3 a write grant
RoleGrant == api_grant_document_permission("u1", "d1", "u3", "write", None)

\* the role holder asks what it may do
RoleCheck == \E d \in DocIds, c \in PermissionType : check_permissions("u3", d, c)

NextRoles ==
    \/ RoleTick
    \/ RoleAssign
    \/ RoleRequire
    \/ RoleGrant
    \/ RoleCheck

SpecRoles == InitRoles /\ [][NextRoles]_vars

LiveAssignment(a) == a.expires_at = None \/ a.expires_at > now

\* C29: the role check passes exactly when the user holds an assignment to
\* the role asked for or to admin whose expires_at is unset or in the future;
\* an assignment whose expires_at has passed confers nothing.
C29_HasRoleIff ==
    [][\A u \in Users, r \in RoleNames :
         (resp'.op = "require_role" /\ require_role(u, r))
            => /\ (resp'.code = 200) <=>
                     \E a \in role_assignments :
                        a.user_id = u /\ a.role \in {r, "admin"} /\ LiveAssignment(a)
               /\ (\A a \in role_assignments : a.user_id = u => ~LiveAssignment(a))
                     => resp'.code = 403]_vars

\* the role check has just turned away a user whose only assignment has lapsed
C29_Witness ==
    /\ resp = Response("require_role", 403, NoContent)
    /\ \E a \in role_assignments : a.user_id = "u3" /\ a.role = "admin" /\ ~LiveAssignment(a)
    /\ \A a \in role_assignments : a.user_id = "u3" => ~LiveAssignment(a)

\* C30: a step that changes nothing but role assignments changes the answer
\* of no capability check, and a holder of the admin role who is neither
\* sender nor recipient and holds no live grant fails every capability check.
C30_RolesDoNotGrantCapabilities ==
    /\ [][(documents' = documents /\ permissions' = permissions /\ now' = now)
            => \A u \in Users, d \in DocIds, c \in PermissionType :
                  HasPermission(u, d, c)' = HasPermission(u, d, c)]_vars
    /\ [](\A u \in Users, d \in DocIds, c \in PermissionType :
            (/\ has_role(role_assignments, u, "admin", now)
             /\ ~IsSender(u, d) /\ ~IsRecipient(u, d)
             /\ LiveRows(u, d) = {})
               => ~HasPermission(u, d, c))
    /\ [][\A d \in DocIds, c \in PermissionType :
            (/\ resp'.op = "check"
             /\ has_role(role_assignments, "u3", "admin", now)
             /\ LiveRows("u3", d) = {}
             /\ check_permissions("u3", d, c))
               => resp'.content = <<FALSE>>]_vars

\* u3 holds the admin role, has no grant, asked, and was told no
C30_Witness ==
    /\ resp = Response("check", 200, <<FALSE>>)
    /\ has_role(role_assignments, "u3", "admin", now)
    /\ LiveRows("u3", "d1") = {}

(***************************************************************************)
(* Downloads of a document that may have been stored under a master key    *)
(* other than the one now configured                                       *)
(***************************************************************************)
\* the master key in force when the document was uploaded
StoredKeys == {ENCRYPTION_KEY, "previous"}

RotatedDocument(n, e, master_key) ==
    Uploaded(NewDocument("d1", "u1", "u2", "t1", NullText, e, n, 0),
             encrypt_base64_content(b64encode("c1"), "d1", "iv1", master_key))

InitRotated ==
    /\ now = 0
    /\ \E n \in {None} \cup (1..MaxViewDocLimit), e \in {None, 1}, master_key \in StoredKeys :
          documents = [d \in {"d1"} |-> RotatedDocument(n, e, master_key)]
    /\ permissions = {}
    /\ access_logs = log_access(<<>>, "d1", "u1", "upload", TRUE, 0)
    /\ resp = Response("create", 200, NoContent)
    /\ sessions = [s \in Sessions |-> IdleSession]
    /\ lifecycle_events = <<>>
    /\ cleanup_jobs = <<>>
    /\ role_assignments = {}
    /\ lifecycle_config = DefaultConfig

RotatedLogRoom == Len(access_logs) < MaxRotatedLogs

RotatedDownload == RotatedLogRoom /\ \E u \in Users : download_document(u, "d1")

RotatedGet == RotatedLogRoom /\ \E u \in Users : get_document(u, "d1")

NextRotated ==
    \/ Tick
    \/ RotatedDownload
    \/ RotatedGet

SpecRotated == InitRotated /\ [][NextRotated]_vars

LastLogIs(d, u, action, success) ==
    /\ access_logs # <<>>
    /\ LET l == access_logs[Len(access_logs)]
       IN  l.document_id = d /\ l.user_id = u /\ l.action = action /\ l.success = success

\* C31: a download whose decryption fails leaves access_count and view_limit
\* as they were, appends an access_denied log for the caller, answers with an
\* internal error and no content; access_count moves only in a download that
\* decrypted and answered with content.
C31_FailedDecryptConsumesNoView ==
    [][\A u \in Users :
         (resp'.op = "download" /\ download_document(u, "d1"))
            => /\ resp'.code = 500
                  => /\ documents'["d1"].access_count = documents["d1"].access_count
                     /\ documents'["d1"].view_limit = documents["d1"].view_limit
                     /\ Len(access_logs') = Len(access_logs) + 1
                     /\ LastLogIs("d1", u, "access_denied", FALSE)'
                     /\ resp'.content = NoContent
               /\ documents'["d1"].access_count # documents["d1"].access_count
                  => /\ resp'.code = 200
                     /\ resp'.content # NoContent
                     /\ documents'["d1"].access_count = documents["d1"].access_count + 1]_vars

\* the recipient's download of a document stored under the previous key
\* failed, after an earlier failure: no view was consumed
C31_Witness ==
    /\ resp = Response("download", 500, NoContent)
    /\ documents["d1"].access_count = 0
    /\ documents["d1"].view_limit = 1
    /\ LastLogIs("d1", "u2", "access_denied", FALSE)
    /\ Len(access_logs) >= 3

(***************************************************************************)
(* The sender's updates of documents whose expiry has passed                *)
(***************************************************************************)
\* what the request schema lets through: an expiry after the request time
LaterExpiry == {t \in 1..(MaxTime + 1) : t > now}

ReviveUpdate ==
    ExpireLogRoom /\ \E d \in LifeDocs, expires_at \in {None} \cup LaterExpiry,
                        view_limit \in ViewLimitChoice :
                         update_document("u1", d, NullText, NullText, expires_at, view_limit)

NextRevive ==
    \/ Tick
    \/ ExpireGet
    \/ ExpireDownload
    \/ ReviveUpdate

SpecRevive == InitLife /\ [][NextRevive]_vars

\* C32 as stated: once a document's stored status is expired it is only ever
\* expired or deleted afterwards, and once its recomputed status is expired
\* no request makes the recomputed status active or view_exhausted again.
C32_ExpiredIsIrreversible ==
    [][\A d \in DOMAIN documents \cap DOMAIN documents' :
         /\ documents[d].status = "expired"
               => documents'[d].status \in {"expired", "deleted"}
         /\ calculate_status(documents[d], now) = "expired"
               => calculate_status(documents'[d], now') \in {"expired", "deleted"}]_vars

\* C33 as stated: the sender or recipient of a document whose recomputed
\* status is expired or view_exhausted still reads its metadata, while the
\* download of the same document is denied.
C33_ReadNotGatedByStatus ==
    [][\A d \in DOMAIN documents :
         \A u \in {documents[d].sender_id, documents[d].recipient_id} :
            calculate_status(documents[d], now) \in {"expired", "view_exhausted"}
               => /\ (resp'.op = "get" /\ get_document(u, d)) => resp'.code = 200
                  /\ (resp'.op = "download" /\ download_document(u, d))
                        => resp'.code = 403]_vars

DeniedLogged(u, d) ==
    /\ Len(access_logs') = Len(access_logs) + 1
    /\ LastLogIs(d, u, "access_denied", FALSE)'

\* C34 as stated: every read, download, update or delete request on an
\* existing document that is answered 403 has appended an access_denied log
\* with success false for that document and user, on the permission-aware
\* routes as well.
C34_EveryDenialLogged ==
    [][\A u \in Users, d \in DocIds :
         (Exists(d) /\ resp'.code = 403)
            => /\ get_document_with_permissions(u, d) => DeniedLogged(u, d)
               /\ download_document_with_permission(u, d) => DeniedLogged(u, d)
               /\ (\E title \in {NullText, "t2"} :
                      update_document_with_permission(u, d, title, NullText, None, None))
                     => DeniedLogged(u, d)
               /\ delete_document_with_permission(u, d) => DeniedLogged(u, d)]_vars

(***************************************************************************)
(* Requests whose access-log write may fail                                *)
(***************************************************************************)
FailLogRoom == Len(access_logs) < MaxFailLogs

FailDownload ==
    FailLogRoom /\ \E u \in Users, log_fails \in BOOLEAN :
                       download_document_logging(u, "d1", log_fails)

FailUpdate ==
    FailLogRoom /\ \E u \in Users, title \in {NullText, "t2"}, view_limit \in ViewLimitChoice,
                      log_fails \in BOOLEAN :
                       update_document_logging(u, "d1", title, NullText, None, view_limit,
                                               log_fails)

FailDelete ==
    FailLogRoom /\ \E u \in Users, log_fails \in BOOLEAN :
                       delete_document_logging(u, "d1", log_fails)

NextFail ==
    \/ FailDownload
    \/ FailUpdate
    \/ FailDelete

SpecFail == InitView /\ [][NextFail]_vars

\* C35: when the access-log write fails, a download by a user the document is
\* accessible to still returns the content and persists the access_count
\* increment, and an update or delete by the sender still persists its change.
C35_LogFailureKeepsOperation ==
    [][\A u \in Users :
         /\ (/\ is_accessible_by(documents["d1"], u, now).ok
             /\ resp'.op = "download"
             /\ download_document_logging(u, "d1", TRUE))
               => /\ resp'.code = 200
                  /\ resp'.content = b64encode("c1")
                  /\ documents'["d1"].access_count = documents["d1"].access_count + 1
                  /\ access_logs' = access_logs
         /\ (/\ u = documents["d1"].sender_id
             /\ resp'.op = "delete"
             /\ delete_document_logging(u, "d1", TRUE))
               => /\ resp'.code = 200
                  /\ documents'["d1"].status = "deleted"
                  /\ documents'["d1"].deleted_at = now
                  /\ access_logs' = access_logs
         /\ \A title \in {NullText, "t2"}, view_limit \in ViewLimitChoice :
               (/\ u = documents["d1"].sender_id
                /\ resp'.op = "update"
                /\ update_document_logging(u, "d1", title, NullText, None, view_limit, TRUE))
                  => /\ resp'.code = 200
                     /\ title # NullText => documents'["d1"].title = title
                     /\ view_limit # None => documents'["d1"].view_limit = view_limit
                     /\ access_logs' = access_logs]_vars

\* a download and then a delete went through with every log write after the
\* upload's lost
C35_Witness ==
    /\ resp = Response("delete", 200, NoContent)
    /\ documents["d1"].status = "deleted"
    /\ documents["d1"].access_count = 1
    /\ Len(access_logs) = 1

(***************************************************************************)
(* The master key as the settings supply it                                *)
(***************************************************************************)
\* the ENCRYPTION_KEY environment variable: set to a key, set to the empty
\* string, or not set
Environments ==
    {[set |-> TRUE, value |-> ENCRYPTION_KEY], [set |-> TRUE, value |-> ""],
     [set |-> FALSE, value |-> ""]}

getenv(env, default) == IF env.set THEN env.value ELSE default

PlaceholderKey == "your-encryption-key-here-change-in-production"

\* settings.ENCRYPTION_KEY
SettingsKey(env) == getenv(env, PlaceholderKey)

NoKey(env) == ~env.set \/ env.value = ""

KeyFrame ==
    UNCHANGED <<now, documents, permissions, access_logs, sessions, lifecycle_events,
                cleanup_jobs, lifecycle_config, role_assignments>>

settings_derive_key(env, document_id) ==
    /\ LET k == derive_key_from_master(document_id, SettingsKey(env))
       IN  resp' = IF k.ok THEN Response("derive_key", 200, <<k.key>>)
                           ELSE Response("derive_key", 500, NoContent)
    /\ KeyFrame

settings_encrypt(env, content, document_id, iv) ==
    /\ LET enc == encrypt_content(content, document_id, iv, SettingsKey(env))
       IN  resp' = IF enc.ok THEN Response("encrypt", 200, <<enc.encrypted_content, enc.iv>>)
                             ELSE Response("encrypt", 500, NoContent)
    /\ KeyFrame

\* a ciphertext written while the key was configured, decrypted now
settings_decrypt(env, content, document_id, iv, unpads) ==
    /\ LET enc == encrypt_content(content, document_id, iv, ENCRYPTION_KEY)
           dec == decrypt_content(enc.encrypted_content, enc.iv, document_id,
                                  SettingsKey(env), unpads)
       IN  resp' = IF dec.ok THEN Response("decrypt", 200, <<dec.content>>)
                             ELSE Response("decrypt", 500, NoContent)
    /\ KeyFrame

settings_create(env, recipient_id, expires_at, view_limit, iv) ==
    create_document("u1", recipient_id, "t1", NullText, b64encode("c1"), expires_at,
                    view_limit, iv, SettingsKey(env))

KeyDerive == \E env \in Environments, d \in CryptoDocIds : settings_derive_key(env, d)

KeyEncrypt ==
    \E env \in Environments, d \in CryptoDocIds, iv \in CryptoIVs :
        settings_encrypt(env, <<"c1">>, d, iv)

KeyDecrypt ==
    \E env \in Environments, d \in CryptoDocIds, iv \in CryptoIVs, unpads \in BOOLEAN :
        settings_decrypt(env, <<"c1">>, d, iv, unpads)

KeyCreate ==
    /\ LogRoom
    /\ \E env \in Environments, recipient_id \in {"u2", "nobody"},
          expires_at \in ExpiryChoice, view_limit \in ViewLimitChoice, iv \in CryptoIVs :
           settings_create(env, recipient_id, expires_at, view_limit, iv)

NextKey ==
    \/ Tick
    \/ KeyDerive
    \/ KeyEncrypt
    \/ KeyDecrypt
    \/ KeyCreate

SpecKey == Init /\ [][NextKey]_vars

\* C36 as stated: with the master key empty or not set, key derivation,
\* encryption and decryption each fail and return nothing, and
\* create_document leaves no document row.
C36_NoKeyNoCrypto ==
    [][\A env \in Environments :
         NoKey(env)
            => /\ \A d \in CryptoDocIds :
                     (resp'.op = "derive_key" /\ settings_derive_key(env, d))
                        => resp' = Response("derive_key", 500, NoContent)
               /\ \A d \in CryptoDocIds, iv \in CryptoIVs :
                     (resp'.op = "encrypt" /\ settings_encrypt(env, <<"c1">>, d, iv))
                        => resp' = Response("encrypt", 500, NoContent)
               /\ \A d \in CryptoDocIds, iv \in CryptoIVs, unpads \in BOOLEAN :
                     (resp'.op = "decrypt" /\ settings_decrypt(env, <<"c1">>, d, iv, unpads))
                        => resp' = Response("decrypt", 500, NoContent)
               /\ \A expires_at \in ExpiryChoice, view_limit \in ViewLimitChoice,
                     iv \in CryptoIVs :
                     (resp'.op = "create"
                      /\ settings_create(env, "u2", expires_at, view_limit, iv))
                        => /\ resp'.code = 500
                           /\ documents' = documents]_vars

\* C37 as stated: a document's access_count is 0 when its row appears, never
\* decreases, and changes only by +1 in a step that is a download answered
\* with success.
C37_AccessCountMonotonic ==
    [][/\ \A d \in DOMAIN documents' \ DOMAIN documents : documents'[d].access_count = 0
       /\ \A d \in DOMAIN documents \cap DOMAIN documents' :
            /\ documents'[d].access_count >= documents[d].access_count
            /\ documents'[d].access_count # documents[d].access_count
                  => /\ documents'[d].access_count = documents[d].access_count + 1
                     /\ resp'.op = "download"
                     /\ resp'.code = 200]_vars

\* C38: in every reachable state a document's stored status is deleted
\* exactly when its deleted_at is set.
C38_DeletedIffDeletedAt ==
    \A d \in DOMAIN documents :
        (documents[d].status = "deleted") <=> (documents[d].deleted_at # None)

SoftDeleted(doc) == doc.deleted_at # None

\* C39 as stated: once a document has been soft-deleted, every later step
\* that keeps its row leaves its stored status deleted, no download of it
\* succeeds, and no listing holds it.
C39_DeletedIsAbsorbing ==
    /\ [][\A d \in DOMAIN documents \cap DOMAIN documents' :
            SoftDeleted(documents[d])
               => /\ documents'[d].status = "deleted"
                  /\ SoftDeleted(documents'[d])
                  /\ \A u \in Users :
                        (resp'.op = "download" /\ download_document(u, d))
                           => resp'.code = 403]_vars
    /\ [](\A d \in DOMAIN documents :
            SoftDeleted(documents[d])
               => \A u \in Users, sent \in BOOLEAN, received \in BOOLEAN :
                     d \notin listed_documents(documents, u, sent, received))

(***************************************************************************)
(* Eventual hard removal.  The cleanup job runs again and again and the    *)
(* clock never stops, so the behaviours that matter are infinite: the      *)
(* clock is kept in the window 0..MaxTime by moving the window (every      *)
(* stored timestamp one unit down, those that leave the window held at its *)
(* start, which no comparison against now - grace tells apart as long as   *)
(* the grace period is shorter than the window), and the history tables,   *)
(* which no handler of this specification reads, are emptied when the      *)
(* window moves.                                                           *)
(***************************************************************************)
MaxFairLogs == 3

Earlier(t) == IF t = None THEN None ELSE IF t = 0 THEN 0 ELSE t - 1

EarlierDocument(doc) ==
    [doc EXCEPT !.created_at = Earlier(@), !.updated_at = Earlier(@),
                !.expires_at = Earlier(@), !.deleted_at = Earlier(@)]

MoveWindow ==
    /\ now = MaxTime
    /\ now' = now - 1
    /\ documents' = [d \in DOMAIN documents |-> EarlierDocument(documents[d])]
    /\ access_logs' = <<>>
    /\ lifecycle_events' = <<>>
    /\ cleanup_jobs' = <<>>
    /\ resp' = NoResponse
    /\ UNCHANGED <<role_assignments, permissions, sessions, lifecycle_config>>

InitFair ==
    /\ now = 0
    /\ documents = [d \in LifeDocs |-> LifeDocument(d, None, None)]
    /\ permissions = {}
    /\ access_logs = log_access(log_access(<<>>, "d1", "u1", "upload", TRUE, 0),
                                "d2", "u1", "upload", TRUE, 0)
    /\ resp = Response("create", 200, NoContent)
    /\ sessions = [s \in Sessions |-> IdleSession]
    /\ lifecycle_events = <<>>
    /\ cleanup_jobs = <<>>
    /\ role_assignments = {}
    /\ \E g \in GracePeriods, b \in BatchSizes :
           lifecycle_config = [DefaultConfig EXCEPT !.cleanup_grace_period_days = g,
                                                    !.cleanup_batch_size = b]

FairLogRoom == Len(access_logs) < MaxFairLogs

FairDelete == FairLogRoom /\ \E d \in LifeDocs : delete_document("u1", d)

FairTitles == {"t1", "t2"}

FairUpdate ==
    FairLogRoom /\ \E d \in LifeDocs, title \in FairTitles :
                       update_document("u1", d, title, NullText, None, None)

\* the scheduled run, on a database that lets the documents row go (the
\* foreign key of the event rows not enforced), so that a run that selects
\* a document removes it
FairCleanup == JobRoom /\ cleanup_deleted_documents("none", FALSE)

NextFair ==
    \/ Tick
    \/ MoveWindow
    \/ FairDelete
    \/ FairUpdate
    \/ FairCleanup

\* the scheduler keeps starting cleanup_deleted_documents and time keeps
\* advancing; requests of the sender come as they come
SpecFair ==
    /\ InitFair
    /\ [][NextFair]_vars
    /\ WF_vars(Tick)
    /\ WF_vars(MoveWindow)
    /\ WF_vars(FairCleanup)

\* C40 as stated: with cleanup runs and the clock weakly fair, every
\* soft-deleted document is eventually hard-removed.
C40_DeletedEventuallyPurged ==
    \A d \in LifeDocs :
        (d \in DOMAIN documents /\ SoftDeleted(documents[d])) ~> (d \notin DOMAIN documents)

====
